---- MODULE Spec2Model ----
(***************************************************************************)
(* Model of the FinOps dashboard core: the query template registry, the    *)
(* query resolver, the cached execution layer (DataFetcher) and the        *)
(* derived-metric functions (DataProcessor).                               *)
(*                                                                         *)
(* The repository holds near-duplicate implementations.  They are told     *)
(* apart by a suffix:                                                      *)
(*   _FD  src/fin/finops_dashboard/...   (data_fetcher, data_processor,    *)
(*        filter_manager, pages)                                           *)
(*   _FS  src/fin/src/data_fetcher.py                                      *)
(*   _SS  src/src/...                    (data_processor, filter_manager)  *)
(*                                                                         *)
(* Strings are sequences of tokens.  A placeholder "{name}", a quote "'"   *)
(* and a parameter marker "?" are tokens of their own, so that             *)
(* str.format and str.replace act on them as they act on the characters.   *)
(***************************************************************************)
EXTENDS Integers, Sequences, FiniteSets, TLC

VARIABLES
    variant,      \* which DataFetcher implementation runs: "FD" or "FS"
    files,        \* the .py files of the queries directory (an input)
    baseDir,      \* DataFetcher._queries_base_dir
    registry,     \* DataFetcher._all_sql_queries / _all_queries
    loaded,       \* DataFetcher._queries_loaded (FS only)
    cache,        \* the st.cache_data store of _execute_snowpark_query_cached
    now,          \* the clock, seconds
    last,         \* record of the most recent operation (history)
    mode,         \* which metric computation is set up ("none" in Spec)
    mIn,          \* input of the metric computation
    mOut          \* output of the metric computation

fetchVars == <<variant, files, baseDir, registry, loaded, cache, now, last>>
metricVars == <<mode, mIn, mOut>>
vars == <<variant, files, baseDir, registry, loaded, cache, now, last, mode, mIn, mOut>>

(***************************************************************************)
(* Bounds of the model                                                     *)
(***************************************************************************)
MaxTime == 7200
TickStep == 1800

(***************************************************************************)
(* Sequences helpers                                                       *)
(***************************************************************************)
Range(s) == {s[i] : i \in DOMAIN s}

RECURSIVE Flatten(_)
Flatten(ss) == IF ss = <<>> THEN <<>> ELSE Head(ss) \o Flatten(Tail(ss))

IsPrefix(p, s) == Len(p) <= Len(s) /\ SubSeq(s, 1, Len(p)) = p

\* sub occurs in s as a contiguous run of tokens (Python's `sub in s`)
Occurs(sub, s) ==
    \E i \in 1..(Len(s) - Len(sub) + 1) : SubSeq(s, i, i + Len(sub) - 1) = sub

\* Python's s.replace(old, new): every non-overlapping occurrence, left to right
RECURSIVE Replace(_, _, _)
Replace(s, old, new) ==
    IF s = <<>> THEN <<>>
    ELSE IF IsPrefix(old, s)
         THEN new \o Replace(SubSeq(s, Len(old) + 1, Len(s)), old, new)
         ELSE <<Head(s)>> \o Replace(Tail(s), old, new)

(***************************************************************************)
(* Values: a Python str is a token sequence; None is a value of its own.   *)
(***************************************************************************)
Str(s) == [isNone |-> FALSE, s |-> s]
None == [isNone |-> TRUE, s |-> <<>>]
\* str(v), as str.format renders a value
PyStr(v) == IF v.isNone THEN <<"None">> ELSE v.s

(***************************************************************************)
(* Configuration: table names (config.py)                                  *)
(***************************************************************************)
QUERY_HISTORY_TABLE == <<"SNOWFLAKE.ACCOUNT_USAGE.QUERY_HISTORY">>
METERING_HISTORY_TABLE == <<"SNOWFLAKE.ACCOUNT_USAGE.METERING_HISTORY">>
LOGIN_HISTORY_TABLE == <<"SNOWFLAKE.ACCOUNT_USAGE.LOGIN_HISTORY">>
WAREHOUSE_METERING_HISTORY_TABLE == <<"SNOWFLAKE.ACCOUNT_USAGE.WAREHOUSE_METERING_HISTORY">>

\* the keyword arguments format() is given for the table names
TableConfig ==
    [query_history_table |-> QUERY_HISTORY_TABLE,
     metering_history_table |-> METERING_HISTORY_TABLE,
     warehouse_metering_history_table |-> WAREHOUSE_METERING_HISTORY_TABLE,
     login_history_table |-> LOGIN_HISTORY_TABLE]

StructuralNames == DOMAIN TableConfig

\* the placeholder token "{name}"
Field(name) == "{" \o name \o "}"

DateParamKeys == <<"start_date", "end_date", "prev_start_date", "prev_end_date">>

\* every placeholder name a template of the model uses
FieldNames ==
    StructuralNames \cup Range(DateParamKeys) \cup {"user_name_filter_clause", "warehouse_name"}

IsField(tok) == \E n \in FieldNames : tok = Field(n)
FieldName(tok) == CHOOSE n \in FieldNames : tok = Field(n)

Quote == "'"
Marker == "?"
(***************************************************************************)
(* Parameter sets.  A Python dict is a function from names to values.      *)
(***************************************************************************)
EmptyDict == [n \in {} |-> None]

HasKey(d, k) == k \in DOMAIN d

\* FilterManager.get_time_and_user_filters (FD): the filter clause is built
\* by an f-string around the selected user name.
AllUsers == <<"All Users">>

UserNameFilterClause_FD(selected_user) ==
    IF selected_user # <<>> /\ selected_user # AllUsers
    THEN <<"AND USER_NAME =", Quote>> \o selected_user \o <<Quote>>
    ELSE <<>>

UserNameForQuery_FD(selected_user) ==
    IF selected_user # <<>> /\ selected_user # AllUsers
    THEN Str(selected_user)
    ELSE None

get_time_and_user_filters_FD(start_date, end_date, selected_user) ==
    [start_date |-> start_date,
     end_date |-> end_date,
     user_name |-> UserNameForQuery_FD(selected_user),
     user_name_filter_clause |-> Str(UserNameFilterClause_FD(selected_user))]

\* User360Page.render (FD): the parameters handed to DataFetcher
current_period_query_params_FD(filters) ==
    [start_date |-> filters.start_date,
     end_date |-> filters.end_date,
     user_name_filter_clause |-> filters.user_name_filter_clause]

\* FilterManager.get_time_and_user_filters (SS): the user name itself is
\* handed on, None for "All Users".
get_user_filter_SS(selected_user) ==
    IF selected_user = AllUsers THEN None ELSE Str(selected_user)

get_time_and_user_filters_SS(start_date, end_date, selected_user) ==
    [start_date |-> start_date,
     end_date |-> end_date,
     user_name |-> get_user_filter_SS(selected_user)]

(***************************************************************************)
(* Query resolution                                                        *)
(***************************************************************************)
Resolved(sql, binds) == [err |-> "", sql |-> sql, binds |-> binds]
ResolveError(e) == [err |-> e, sql |-> <<>>, binds |-> <<>>]

\* one token of the template under str.format(**kwargs)
FormatToken(tok, kwargs) ==
    IF IsField(tok) THEN PyStr(kwargs[FieldName(tok)]) ELSE <<tok>>

\* FD: query_text.format(query_history_table=..., ..., **query_params)
\*  - a parameter named like a table keyword: TypeError (keyword given twice)
\*  - a placeholder with no keyword: KeyError
Resolve_FD(query_text, query_params) ==
    LET kwargs == [n \in StructuralNames \cup DOMAIN query_params |->
                      IF n \in StructuralNames THEN Str(TableConfig[n])
                      ELSE query_params[n]]
        fields == {FieldName(query_text[i]) :
                      i \in {j \in DOMAIN query_text : IsField(query_text[j])}}
    IN  IF DOMAIN query_params \cap StructuralNames # {} THEN ResolveError("TypeError")
        ELSE IF ~(fields \subseteq DOMAIN kwargs) THEN ResolveError("KeyError")
        ELSE Resolved(Flatten([i \in DOMAIN query_text |->
                                  FormatToken(query_text[i], kwargs)]), <<>>)

\* FS step 1: the four table placeholders, by str.replace
ReplaceTables_FS(sql) ==
    LET s1 == Replace(sql, <<Field("query_history_table")>>, QUERY_HISTORY_TABLE)
        s2 == Replace(s1, <<Field("metering_history_table")>>, METERING_HISTORY_TABLE)
        s3 == Replace(s2, <<Field("login_history_table")>>, LOGIN_HISTORY_TABLE)
    IN  Replace(s3, <<Field("warehouse_metering_history_table")>>,
                WAREHOUSE_METERING_HISTORY_TABLE)

\* FS step 2: the quoted date placeholders '{key}', in the order of the list
RECURSIVE ReplaceDates_FS(_, _, _)
ReplaceDates_FS(sql, params, keys) ==
    IF keys = <<>> THEN sql
    ELSE LET k == Head(keys)
             s == IF HasKey(params, k) /\ ~params[k].isNone
                  THEN Replace(sql, <<Quote, Field(k), Quote>>,
                               <<Quote>> \o params[k].s \o <<Quote>>)
                  ELSE sql
         IN  ReplaceDates_FS(s, params, Tail(keys))

\* FS step 3: the user filter becomes a marker and a bound value
HasUser_FS(params) == HasKey(params, "user_name") /\ ~params["user_name"].isNone

UserFilterClause_FS(params) ==
    IF HasUser_FS(params) THEN <<"AND user_name =", Marker>> ELSE <<>>

BindParams_FS(params) ==
    IF HasUser_FS(params) THEN <<params["user_name"]>> ELSE <<>>

\* a resolver whose output depends on the time of the call
ResolveWithClock_FS(query_text, params) ==
    LET s1 == ReplaceTables_FS(query_text)
    IN  Resolved(Append(s1, ToString(now)), <<>>)

\* a resolver that lets a parameter named like a table take the table's place
ResolveTablesFromParams_FS(query_text, params) ==
    LET s0 == IF HasKey(params, "query_history_table")
              THEN Replace(query_text, <<Field("query_history_table")>>,
                           PyStr(params["query_history_table"]))
              ELSE query_text
        s1 == ReplaceTables_FS(s0)
    IN  IF DOMAIN params = {} THEN Resolved(s1, <<>>)
        ELSE Resolved(Replace(ReplaceDates_FS(s1, params, DateParamKeys),
                              <<Field("user_name_filter_clause")>>,
                              UserFilterClause_FS(params)),
                      BindParams_FS(params))

\* FS: steps 2 and 3 run only under `if params:` (a non-empty dict)
Resolve_FS(query_text, params) ==
    LET s1 == ReplaceTables_FS(query_text)
    IN  IF DOMAIN params = {} THEN Resolved(s1, <<>>)
        ELSE Resolved(Replace(ReplaceDates_FS(s1, params, DateParamKeys),
                              <<Field("user_name_filter_clause")>>,
                              UserFilterClause_FS(params)),
                      BindParams_FS(params))
(***************************************************************************)
(* Query files.  A file has a stem (its name without ".py") and the        *)
(* module attributes whose names end in "_SQL_QUERIES", in dir() order.    *)
(* A template value is a str or something else (isStr FALSE).              *)
(***************************************************************************)
Template(text) == [isStr |-> TRUE, text |-> text]
NonStrTemplate == [isStr |-> FALSE, text |-> <<>>]

EmptyQueries == [k \in {} |-> NonStrTemplate]

DictVar(queries) == [isDict |-> TRUE, queries |-> queries]
NonDictVar == [isDict |-> FALSE, queries |-> EmptyQueries]

T_get_all_users ==
    <<"SELECT DISTINCT USER_NAME FROM", Field("query_history_table"),
      "WHERE USER_NAME IS NOT NULL ORDER BY USER_NAME;">>

T_get_available_warehouses ==
    <<"SELECT DISTINCT WAREHOUSE_NAME FROM", Field("warehouse_metering_history_table"),
      "WHERE WAREHOUSE_NAME IS NOT NULL ORDER BY WAREHOUSE_NAME;">>

\* finops_dashboard/queries/user_360_queries.py
T_total_credit_usage_FD ==
    <<"SELECT SUM(...) AS TOTAL_CREDITS_USED FROM", Field("query_history_table"),
      "WHERE START_TIME >=", Quote, Field("start_date"), Quote,
      "AND START_TIME <", Quote, Field("end_date"), Quote,
      "AND QUERY_TYPE != 'UNKNOWN'", Field("user_name_filter_clause"), ";">>

T_top_users_by_cost_FD ==
    <<"SELECT USER_NAME, SUM(...) AS TOTAL_CREDITS_USED FROM", Field("query_history_table"),
      "WHERE START_TIME >=", Quote, Field("start_date"), Quote,
      "AND START_TIME <", Quote, Field("end_date"), Quote,
      "AND USER_NAME IS NOT NULL GROUP BY USER_NAME LIMIT 100;">>

\* fin/queries/user_360_queries.py
T_total_credit_usage_FS ==
    <<"SELECT SUM(credits_used) AS total_credits_used FROM", Field("query_history_table"),
      "WHERE start_time >=", Quote, Field("start_date"), Quote,
      "AND start_time <", Quote, Field("end_date"), Quote,
      Field("user_name_filter_clause"),
      "-- This placeholder will be replaced by data_fetcher">>

T_total_credit_usage_previous_period_FS ==
    <<"SELECT SUM(credits_used) AS total_credits_used_previous_period FROM",
      Field("query_history_table"),
      "WHERE start_time >=", Quote, Field("prev_start_date"), Quote,
      "AND start_time <", Quote, Field("prev_end_date"), Quote,
      Field("user_name_filter_clause")>>

K_get_all_users == <<"get_all_users">>
K_get_available_warehouses == <<"get_available_warehouses">>
K_total_credit_usage == <<"total_credit_usage">>
K_total_credit_usage_previous_period == <<"total_credit_usage_previous_period">>
K_top_users_by_cost == <<"top_users_by_cost">>

COMMON_SQL_QUERIES ==
    [k \in {K_get_all_users, K_get_available_warehouses} |->
        IF k = K_get_all_users THEN Template(T_get_all_users)
        ELSE Template(T_get_available_warehouses)]

USER_360_SQL_QUERIES_FD ==
    [k \in {K_total_credit_usage, K_total_credit_usage_previous_period, K_top_users_by_cost} |->
        IF k = K_top_users_by_cost THEN Template(T_top_users_by_cost_FD)
        ELSE Template(T_total_credit_usage_FD)]

USER_360_SQL_QUERIES_FS ==
    [k \in {K_total_credit_usage, K_total_credit_usage_previous_period} |->
        IF k = K_total_credit_usage THEN Template(T_total_credit_usage_FS)
        ELSE Template(T_total_credit_usage_previous_period_FS)]

Stem_common_queries == <<"common", "_queries">>
Stem_user_360_queries == <<"user_360", "_queries">>
Stem_user_360 == <<"user_360">>

File(stem, fvars) == [stem |-> stem, vars |-> fvars]

\* the queries directory as the repository ships it
RepoFiles_FD ==
    {File(Stem_common_queries, <<DictVar(COMMON_SQL_QUERIES)>>),
     File(Stem_user_360_queries, <<DictVar(USER_360_SQL_QUERIES_FD)>>)}

RepoFiles_FS ==
    {File(Stem_user_360_queries, <<DictVar(USER_360_SQL_QUERIES_FS)>>)}

(***************************************************************************)
(* Loading the registry                                                    *)
(***************************************************************************)
EmptyRegistry == [ns \in {} |-> EmptyQueries]

AllStrings(queries) == \A k \in DOMAIN queries : queries[k].isStr

\* cls._all_sql_queries[ns] = queries_dict : a plain dict assignment.
\* The log keeps what the assignment met and what it left behind.
Assign(reg, ns, queries) ==
    [x \in DOMAIN reg \cup {ns} |-> IF x = ns THEN queries ELSE reg[x]]

RegisterEvent(reg, ns, queries, regAfter) ==
    [ns |-> ns,
     existed |-> ns \in DOMAIN reg,
     valid |-> AllStrings(queries),
     before |-> IF ns \in DOMAIN reg THEN reg[ns] ELSE EmptyQueries,
     given |-> queries,
     stored |-> ns \in DOMAIN regAfter,
     after |-> IF ns \in DOMAIN regAfter THEN regAfter[ns] ELSE EmptyQueries,
     raised |-> ""]

Register(st, ns, queries) ==
    LET regAfter == Assign(st.reg, ns, queries)
    IN  [reg |-> regAfter,
         log |-> Append(st.log, RegisterEvent(st.reg, ns, queries, regAfter))]

\* FD: every attribute ending in _SQL_QUERIES that is a dict is stored under
\* the module name; a later one replaces an earlier one.
RECURSIVE LoadVars_FD(_, _, _)
LoadVars_FD(st, module_name, fvars) ==
    IF fvars = <<>> THEN st
    ELSE LoadVars_FD(IF Head(fvars).isDict
                     THEN Register(st, module_name, Head(fvars).queries)
                     ELSE st,
                     module_name, Tail(fvars))

RECURSIVE LoadFiles_FD(_, _)
LoadFiles_FD(st, order) ==
    IF order = <<>> THEN st
    ELSE LoadFiles_FD(LoadVars_FD(st, Head(order).stem, Head(order).vars), Tail(order))

\* FS: namespace = file name without extension, with "_queries" removed
Namespace_FS(stem) == Replace(stem, <<"_queries">>, <<>>)

\* FS: the first attribute ending in _SQL_QUERIES that is a dict is stored,
\* then the helper returns.
RECURSIVE load_queries_from_file_FS(_, _, _)
load_queries_from_file_FS(st, stem, fvars) ==
    IF fvars = <<>> THEN st
    ELSE IF Head(fvars).isDict
         THEN Register(st, Namespace_FS(stem), Head(fvars).queries)
         ELSE load_queries_from_file_FS(st, stem, Tail(fvars))

RECURSIVE LoadFiles_FS(_, _)
LoadFiles_FS(st, order) ==
    IF order = <<>> THEN st
    ELSE LoadFiles_FS(load_queries_from_file_FS(st, Head(order).stem, Head(order).vars),
                      Tail(order))

\* the orders in which os.walk / os.listdir may yield a set of files
Orders(fs) ==
    {o \in [1..Cardinality(fs) -> fs] : \A i, j \in DOMAIN o : i # j => o[i] # o[j]}

\* FD load_all_queries: ValueError (swallowed by handle_errors) without a base
\* directory; else the registry is cleared and rebuilt.
load_all_queries_FD(reg, base, order) ==
    IF base = "" THEN [reg |-> reg, log |-> <<>>, error |-> "ValueError"]
    ELSE LET st == LoadFiles_FD([reg |-> EmptyRegistry, log |-> <<>>], order)
         IN  [reg |-> st.reg, log |-> st.log, error |-> ""]

\* FS load_all_queries: nothing when already loaded; st.error and return
\* without a base directory; else files are added to the registry as it is.
load_all_queries_FS(reg, isLoaded, base, order) ==
    IF isLoaded THEN [reg |-> reg, log |-> <<>>, error |-> "", loaded |-> TRUE]
    ELSE IF base = "" THEN [reg |-> reg, log |-> <<>>, error |-> "st.error", loaded |-> FALSE]
    ELSE LET st == LoadFiles_FS([reg |-> reg, log |-> <<>>], order)
         IN  [reg |-> st.reg, log |-> st.log, error |-> "", loaded |-> TRUE]
(***************************************************************************)
(* Looking a template up                                                   *)
(***************************************************************************)
Dot == "."

\* str.split('.') on a token sequence: the segments between the dots
RECURSIVE SplitFrom(_, _)
SplitFrom(s, cur) ==
    IF s = <<>> THEN <<cur>>
    ELSE IF Head(s) = Dot THEN <<cur>> \o SplitFrom(Tail(s), <<>>)
    ELSE SplitFrom(Tail(s), Append(cur, Head(s)))

\* a split that keeps the first two segments and drops the rest
SplitTwoParts(s) ==
    LET p == SplitFrom(s, <<>>) IN IF Len(p) > 2 THEN SubSeq(p, 1, 2) ELSE p

Split(s) == SplitFrom(s, <<>>)

Found(tmpl) == [tag |-> "ok", msg |-> "", tmpl |-> tmpl]
Raised(exc, msg) == [tag |-> exc, msg |-> msg, tmpl |-> NonStrTemplate]
ReturnedNone == [tag |-> "None", msg |-> "", tmpl |-> NonStrTemplate]

\* FD get_query_text(query_group, query_key): ValueError for both failures,
\* with different messages
get_query_text_FD(reg, query_group, query_key) ==
    IF query_group \notin DOMAIN reg
    THEN Raised("ValueError", "Query group not found.")
    ELSE IF query_key \notin DOMAIN reg[query_group]
    THEN Raised("ValueError", "Query key not found in group.")
    ELSE Found(reg[query_group][query_key])

\* a lookup that answers a template for every address
get_some_query_text_FS(reg, isLoaded, query_key) ==
    Found(Template(T_total_credit_usage_FS))

\* FS get_query_text(query_key), after its lazy load: None for every failure
get_query_text_FS(reg, isLoaded, query_key) ==
    LET parts == Split(query_key)
    IN  IF ~isLoaded THEN ReturnedNone
        ELSE IF Len(parts) # 2 THEN ReturnedNone
        ELSE IF parts[1] \notin DOMAIN reg \/ DOMAIN reg[parts[1]] = {} THEN ReturnedNone
        ELSE IF parts[2] \notin DOMAIN reg[parts[1]] THEN ReturnedNone
        ELSE Found(reg[parts[1]][parts[2]])

(***************************************************************************)
(* Cached execution                                                        *)
(***************************************************************************)
TTL == 3600

DF(rows) == [kind |-> "df", rows |-> rows]
NoneValue == [kind |-> "None", rows |-> ""]
EmptyDF == DF("EMPTY")

\* what the warehouse may answer: a table (possibly of zero rows) or a failure
ExecOutcomes ==
    {[ok |-> TRUE, rows |-> "T1"], [ok |-> TRUE, rows |-> "EMPTY"],
     [ok |-> FALSE, rows |-> ""]}

Computed(invoked, execOk, sql, binds, value) ==
    [invoked |-> invoked, execOk |-> execOk, sql |-> sql, binds |-> binds, value |-> value]

\* FD: the body of _execute_snowpark_query_cached under @handle_errors.
\*  - a non-str query_text fails at query_text[:100];
\*  - format() may raise;
\*  - session.sql(final_query).collect() is the executor call; it returns a
\*    list of rows, and list has no to_pandas: AttributeError, re-raised;
\*  - handle_errors turns every exception into None.
Compute_FD(query_text, query_params, outcome) ==
    IF ~query_text.isStr THEN Computed(FALSE, FALSE, <<>>, <<>>, NoneValue)
    ELSE LET r == Resolve_FD(query_text.text, query_params)
         IN  IF r.err # "" THEN Computed(FALSE, FALSE, <<>>, <<>>, NoneValue)
             ELSE Computed(TRUE, outcome.ok, r.sql, r.binds, NoneValue)

\* FS: the body of _execute_snowpark_query_cached under @handle_errors.
\*  - a non-str query_text fails at query_text[:100] (None by handle_errors);
\*  - session.sql(final_sql, binds).to_pandas() is the executor call;
\*  - a failure of the executor is answered by an empty DataFrame.
Compute_FS(query_text, params, outcome) ==
    IF ~query_text.isStr THEN Computed(FALSE, FALSE, <<>>, <<>>, NoneValue)
    ELSE LET r == Resolve_FS(query_text.text, params)
         IN  Computed(TRUE, outcome.ok, r.sql, r.binds,
                      IF outcome.ok THEN DF(outcome.rows) ELSE EmptyDF)

\* st.cache_data keys: the hash of the arguments.  FD hashes the session to a
\* constant (hash_funcs); FS hashes all four arguments.
CacheKey_FD(session, query_text, query_params) ==
    [session |-> "", text |-> query_text, params |-> query_params, logkey |-> <<>>]

CacheKey_FS(session, query_text, params, query_key_for_logging) ==
    [session |-> session, text |-> query_text, params |-> params,
     logkey |-> query_key_for_logging]

NoEntry == [value |-> NoneValue, created |-> -1]

\* a cache whose entries never expire
FreshNeverExpires(created, t) == {TRUE}

\* st.cache_data(ttl=3600): an entry is served while younger than ttl and is
\* recomputed once older; at exactly ttl the library version decides.
FreshOutcomes(created, t) ==
    IF t - created < TTL THEN {TRUE}
    ELSE IF t - created > TTL THEN {FALSE}
    ELSE BOOLEAN

\* st.cache_data around the body: a fresh entry is returned as stored; else
\* the body runs and whatever it returns is stored with the current time.
CachedCall(c, key, t, fresh, comp) ==
    IF key \in DOMAIN c /\ fresh
    THEN [cache |-> c, hit |-> TRUE, invoked |-> FALSE, execOk |-> FALSE,
          value |-> c[key].value]
    ELSE [cache |-> [k \in DOMAIN c \cup {key} |->
                        IF k = key THEN [value |-> comp.value, created |-> t] ELSE c[k]],
          hit |-> FALSE, invoked |-> comp.invoked, execOk |-> comp.execOk,
          value |-> comp.value]
(***************************************************************************)
(* Inputs of the model                                                     *)
(***************************************************************************)
Sessions == {"s1"}

D1 == Str(<<"2024-01-01">>)
D2 == Str(<<"2024-01-31">>)

\* the user name  x'; DROP TABLE t; --
Evil == <<"x", Quote, "; DROP TABLE t; --">>
Users == {AllUsers, Evil}

A_get_all_users == Stem_common_queries \o <<Dot>> \o K_get_all_users
A_total_credit_usage_FD == Stem_user_360_queries \o <<Dot>> \o K_total_credit_usage
A_total_credit_usage_FS == Stem_user_360 \o <<Dot>> \o K_total_credit_usage
A_unknown_namespace == <<"warehouse", "_queries", Dot, "total_credit_usage">>
A_unknown_key == Stem_user_360_queries \o <<Dot, "no_such_query">>
A_unknown_key_FS == Stem_user_360 \o <<Dot, "no_such_query">>
A_one_segment == K_total_credit_usage
A_three_segments == Stem_user_360 \o <<Dot>> \o K_total_credit_usage \o <<Dot, "v2">>

BadAddresses ==
    {A_unknown_namespace, A_unknown_key, A_unknown_key_FS, A_one_segment, A_three_segments}

Request(addr, params) == [addr |-> addr, params |-> params]

Params_FD(u) == current_period_query_params_FD(get_time_and_user_filters_FD(D1, D2, u))
Params_FS(u) == get_time_and_user_filters_SS(D1, D2, u)

\* the requests the callers make (FilterManager, User360Page), and requests
\* with addresses that cannot be looked up
Requests_FD ==
    {Request(A_get_all_users, EmptyDict)}
    \cup {Request(A_total_credit_usage_FD, Params_FD(u)) : u \in Users}
    \cup {Request(a, EmptyDict) : a \in BadAddresses}

Requests_FS ==
    {Request(A_total_credit_usage_FS, Params_FS(u)) : u \in Users}
    \cup {Request(a, EmptyDict) : a \in BadAddresses \cup {A_total_credit_usage_FD}}

(***************************************************************************)
(* Operations                                                              *)
(***************************************************************************)
EmptyCache == [k \in {} |-> NoEntry]

\* set_queries_base_dir
SetQueriesBaseDir(d) ==
    /\ baseDir # d
    /\ baseDir' = d
    /\ last' = [op |-> "set_queries_base_dir"]
    /\ UNCHANGED <<variant, files, registry, loaded, cache, now, metricVars>>

\* load_all_queries, FD
LoadAllQueries_FD(order) ==
    /\ variant = "FD"
    /\ LET r == load_all_queries_FD(registry, baseDir, order)
       IN  /\ registry' = r.reg
           /\ last' = [op |-> "load", log |-> r.log, error |-> r.error,
                       regBefore |-> registry, loadedBefore |-> loaded]
    /\ UNCHANGED <<variant, files, baseDir, loaded, cache, now, metricVars>>

\* load_all_queries, FS
LoadAllQueries_FS(order) ==
    /\ variant = "FS"
    /\ LET r == load_all_queries_FS(registry, loaded, baseDir, order)
       IN  /\ registry' = r.reg
           /\ loaded' = r.loaded
           /\ last' = [op |-> "load", log |-> r.log, error |-> r.error,
                       regBefore |-> registry, loadedBefore |-> loaded]
    /\ UNCHANGED <<variant, files, baseDir, cache, now, metricVars>>

\* the record a fetch leaves in `last`
FetchLast(session, req, lookup, reached, key, call, comp) ==
    [op |-> "fetch", session |-> session, addr |-> req.addr, params |-> req.params,
     lookup |-> lookup, reached |-> reached, key |-> key, at |-> now,
     hadEntry |-> reached /\ key \in DOMAIN cache,
     entry |-> IF reached /\ key \in DOMAIN cache THEN cache[key] ELSE NoEntry,
     hit |-> call.hit, invoked |-> call.invoked, execOk |-> call.execOk,
     resolved |-> comp.invoked, sql |-> comp.sql, binds |-> comp.binds,
     result |-> call.value]

NoCall(c, value) ==
    [cache |-> c, hit |-> FALSE, invoked |-> FALSE, execOk |-> FALSE, value |-> value]
NoComp == Computed(FALSE, FALSE, <<>>, <<>>, NoneValue)
NoKey == CacheKey_FD("", NonStrTemplate, EmptyDict)

\* fetch_data, FD: split, look up, call the cached function; a ValueError
\* (bad address, unknown group or key) is answered by None.
FetchData_FD(session, req, outcome, fresh) ==
    /\ variant = "FD"
    /\ LET parts == Split(req.addr)
           lookup == IF Len(parts) # 2
                     THEN Raised("ValueError", "unpack")
                     ELSE get_query_text_FD(registry, parts[1], parts[2])
           key == CacheKey_FD(session, lookup.tmpl, req.params)
           comp == Compute_FD(lookup.tmpl, req.params, outcome)
           call == CachedCall(cache, key, now, fresh, comp)
       IN  IF lookup.tag = "ok"
           THEN /\ fresh \in (IF key \in DOMAIN cache
                              THEN FreshOutcomes(cache[key].created, now) ELSE {FALSE})
                /\ cache' = call.cache
                /\ last' = FetchLast(session, req, lookup, TRUE, key, call, comp)
           ELSE /\ fresh = FALSE
                /\ outcome = CHOOSE o \in ExecOutcomes : TRUE
                /\ cache' = cache
                /\ last' = FetchLast(session, req, lookup, FALSE, NoKey,
                                     NoCall(cache, NoneValue), NoComp)
    /\ UNCHANGED <<variant, files, baseDir, registry, loaded, now, metricVars>>

\* fetch_data, FS: get_query_text loads the registry when it is not loaded;
\* a missing text is answered by an empty DataFrame.
FetchData_FS(session, req, outcome, fresh, order) ==
    /\ variant = "FS"
    /\ LET ld == load_all_queries_FS(registry, loaded, baseDir, order)
           lookup == get_query_text_FS(ld.reg, ld.loaded, req.addr)
           falsy == lookup.tag # "ok" \/ (lookup.tmpl.isStr /\ lookup.tmpl.text = <<>>)
           key == CacheKey_FS(session, lookup.tmpl, req.params, req.addr)
           comp == Compute_FS(lookup.tmpl, req.params, outcome)
           call == CachedCall(cache, key, now, fresh, comp)
       IN  /\ registry' = ld.reg
           /\ loaded' = ld.loaded
           /\ IF ~falsy
              THEN /\ fresh \in (IF key \in DOMAIN cache
                                 THEN FreshOutcomes(cache[key].created, now) ELSE {FALSE})
                   /\ cache' = call.cache
                   /\ last' = FetchLast(session, req, lookup, TRUE, key, call, comp)
              ELSE /\ fresh = FALSE
                   /\ outcome = CHOOSE o \in ExecOutcomes : TRUE
                   /\ cache' = cache
                   /\ last' = FetchLast(session, req, lookup, FALSE, NoKey,
                                        NoCall(cache, EmptyDF), NoComp)
    /\ UNCHANGED <<variant, files, baseDir, now, metricVars>>

\* time passes
Tick ==
    /\ now + TickStep <= MaxTime
    /\ now' = now + TickStep
    /\ UNCHANGED <<variant, files, baseDir, registry, loaded, cache, last, metricVars>>

RepoFiles(v) == IF v = "FD" THEN RepoFiles_FD ELSE RepoFiles_FS

Init ==
    /\ variant \in {"FD", "FS"}
    /\ files = RepoFiles(variant)
    /\ baseDir = ""
    /\ registry = EmptyRegistry
    /\ loaded = FALSE
    /\ cache = EmptyCache
    /\ now = 0
    /\ last = [op |-> "init"]
    /\ mode = "none"
    /\ mIn = <<>>
    /\ mOut = <<>>

Next ==
    \/ SetQueriesBaseDir("queries")
    \/ \E order \in Orders(files) : LoadAllQueries_FD(order)
    \/ \E order \in Orders(files) : LoadAllQueries_FS(order)
    \/ \E s \in Sessions, req \in Requests_FD, o \in ExecOutcomes, f \in BOOLEAN :
          FetchData_FD(s, req, o, f)
    \/ \E s \in Sessions, req \in Requests_FS, o \in ExecOutcomes, f \in BOOLEAN,
          order \in Orders(files) :
          FetchData_FS(s, req, o, f, order)
    \/ Tick

Spec == Init /\ [][Next]_vars
(***************************************************************************)
(* The registry on its own: any queries directory, loads and lookups       *)
(***************************************************************************)
K_extra == <<"extra_query">>
T_extra == <<"SELECT 1">>

EXTRA_SQL_QUERIES == [k \in {K_extra} |-> Template(T_extra)]
INVALID_SQL_QUERIES ==
    [k \in {K_get_all_users, K_extra} |->
        IF k = K_get_all_users THEN Template(T_get_all_users) ELSE NonStrTemplate]

\* the contents a queries directory may have
FileSystems ==
    {RepoFiles_FD,
     RepoFiles_FS,
     \* user_360_queries.py and user_360.py
     {File(Stem_user_360_queries, <<DictVar(USER_360_SQL_QUERIES_FS)>>),
      File(Stem_user_360, <<DictVar(EXTRA_SQL_QUERIES)>>)},
     \* one module with two dictionaries and a non-dict attribute
     {File(Stem_common_queries,
           <<DictVar(COMMON_SQL_QUERIES), NonDictVar, DictVar(EXTRA_SQL_QUERIES)>>)},
     \* a dictionary with a value that is no string, and an empty dictionary
     {File(Stem_common_queries, <<DictVar(INVALID_SQL_QUERIES)>>),
      File(Stem_user_360_queries, <<DictVar(EmptyQueries)>>)}}

LookupNamespaces ==
    {Stem_common_queries, Stem_user_360_queries, Stem_user_360, <<"common">>, <<"warehouse">>}
LookupKeys == {K_get_all_users, K_total_credit_usage, K_extra, <<"no_such_query">>}

LookupAddresses ==
    {ns \o <<Dot>> \o k : ns \in LookupNamespaces, k \in LookupKeys}
    \cup {A_one_segment, A_three_segments}

\* get_query_text, FD
GetQueryText_FD(query_group, query_key) ==
    /\ variant = "FD"
    /\ last' = [op |-> "lookup", addr |-> query_group \o <<Dot>> \o query_key,
                parts |-> <<query_group, query_key>>,
                lookup |-> get_query_text_FD(registry, query_group, query_key)]
    /\ UNCHANGED <<variant, files, baseDir, registry, loaded, cache, now, metricVars>>

\* get_query_text, FS (with its lazy load)
GetQueryText_FS(query_key, order) ==
    /\ variant = "FS"
    /\ LET ld == load_all_queries_FS(registry, loaded, baseDir, order)
       IN  /\ registry' = ld.reg
           /\ loaded' = ld.loaded
           /\ last' = [op |-> "lookup", addr |-> query_key, parts |-> Split(query_key),
                       lookup |-> get_query_text_FS(ld.reg, ld.loaded, query_key)]
    /\ UNCHANGED <<variant, files, baseDir, cache, now, metricVars>>

InitRegistry ==
    /\ variant \in {"FD", "FS"}
    /\ files \in FileSystems
    /\ baseDir = ""
    /\ registry = EmptyRegistry
    /\ loaded = FALSE
    /\ cache = EmptyCache
    /\ now = 0
    /\ last = [op |-> "init"]
    /\ mode = "none"
    /\ mIn = <<>>
    /\ mOut = <<>>

NextRegistry ==
    \/ SetQueriesBaseDir("queries")
    \/ \E order \in Orders(files) : LoadAllQueries_FD(order)
    \/ \E order \in Orders(files) : LoadAllQueries_FS(order)
    \/ \E ns \in LookupNamespaces, k \in LookupKeys : GetQueryText_FD(ns, k)
    \/ \E a \in LookupAddresses, order \in Orders(files) : GetQueryText_FS(a, order)

SpecRegistry == InitRegistry /\ [][NextRegistry]_vars

(***************************************************************************)
(* Claims about the cached execution layer (checked under Spec)            *)
(***************************************************************************)
FetchReached == last.op = "fetch" /\ last.reached
EntryAge == last.at - last.entry.created

\* C1: Cache round-trip.  A call that finds an entry for its key created less
\* than ttl ago does not invoke the executor and returns the stored table
\* unchanged (so the call that created the entry and this one invoke the
\* executor once between them); a call that finds no entry, or an entry
\* older than ttl, runs the query again and stores the new result with the
\* current time.
C1_CacheRoundTrip ==
    FetchReached =>
        /\ (last.hadEntry /\ EntryAge < TTL) =>
              /\ last.hit /\ ~last.invoked
              /\ last.result = last.entry.value
              /\ cache[last.key] = last.entry
        /\ (~last.hadEntry \/ EntryAge > TTL) =>
              /\ ~last.hit
              /\ last.resolved => last.invoked
              /\ cache[last.key] = [value |-> last.result, created |-> last.at]

\* C1 witness: a second call within ttl answered from the cache with a table
C1_Witness ==
    /\ FetchReached /\ last.hit /\ ~last.invoked
    /\ EntryAge = TickStep
    /\ last.result = DF("T1")

\* C2: Execution failures are not cached: after a call whose executor
\* invocation failed, the cache holds no new entry for the key (it is as it
\* was before the call).
C2_FailuresNotCached ==
    (FetchReached /\ last.invoked /\ ~last.execOk) =>
        IF last.hadEntry THEN cache[last.key] = last.entry
        ELSE last.key \notin DOMAIN cache

\* C3: Injection containment: the selected user name never occurs inside the
\* query string handed to the executor; it is an element of the bound values.
C3_InjectionContainment ==
    (FetchReached /\ last.invoked) =>
        \A u \in Users \ {AllUsers} :
            (last.params = Params_FD(u) \/ last.params = Params_FS(u)) =>
                /\ ~Occurs(u, last.sql)
                /\ Str(u) \in Range(last.binds)

(***************************************************************************)
(* Claims about the registry (checked under SpecRegistry)                  *)
(***************************************************************************)
\* what the caller of get_query_text can tell from the outcome
Classify(r) ==
    IF r.tag = "ok" THEN "ok"
    ELSE IF r.tag = "ValueError" /\ r.msg = "Query group not found." THEN "NamespaceNotFound"
    ELSE IF r.tag = "ValueError" /\ r.msg = "Query key not found in group." THEN "TemplateNotFound"
    ELSE "undistinguished"

\* C9: Registry lookup: a registered (namespace, key) yields exactly its
\* template; an unregistered namespace fails as NamespaceNotFound, a missing
\* key of a registered namespace as TemplateNotFound, and the caller can tell
\* the three outcomes apart.
C9_RegistryLookup ==
    (last.op = "lookup" /\ Len(last.parts) = 2) =>
        LET ns == last.parts[1]
            k == last.parts[2]
        IN  /\ (ns \in DOMAIN registry /\ k \in DOMAIN registry[ns]) =>
                  last.lookup = Found(registry[ns][k])
            /\ ns \notin DOMAIN registry => Classify(last.lookup) = "NamespaceNotFound"
            /\ (ns \in DOMAIN registry /\ k \notin DOMAIN registry[ns]) =>
                  Classify(last.lookup) = "TemplateNotFound"

\* C10: Registry registration: registering a namespace that already exists
\* fails with DuplicateNamespace and leaves the existing templates as they
\* were; registering a namespace with a non-string value fails with
\* InvalidTemplate.
C10_RegistryRegistration ==
    last.op = "load" =>
        \A i \in DOMAIN last.log :
            LET e == last.log[i]
            IN  /\ e.existed => (e.raised = "DuplicateNamespace" /\ e.after = e.before)
                /\ ~e.valid => (e.raised = "InvalidTemplate" /\ (~e.existed => ~e.stored))
(***************************************************************************)
(* Metric engine (data_processor.py): values and tables                    *)
(*    _FD : src/fin/finops_dashboard/src/data_processor.py                 *)
(*    _SS : src/src/data_processor.py                                      *)
(* Numbers are exact rationals; floating-point rounding is not modelled.   *)
(***************************************************************************)
MaxTopRows == 3
MaxN == 4
MaxPivotRows == 2
MaxPriorityRows == 3
MaxStart == 5
MaxStep == 3
UniformRows == 100

Abs(x) == IF x < 0 THEN -x ELSE x
Min2(a, b) == IF a < b THEN a ELSE b

RECURSIVE GCD(_, _)
GCD(a, b) == IF b = 0 THEN a ELSE GCD(b, a % b)

\* the rational n/d in lowest terms, d > 0
Rat(n, d) ==
    LET g == GCD(Abs(n), d)
    IN  [num |-> n \div g, den |-> d \div g]

Zero == Rat(0, 1)

RECURSIVE SumSeq(_)
SumSeq(s) == IF s = <<>> THEN 0 ELSE Head(s) + SumSeq(Tail(s))

RECURSIVE SetToSortedSeq(_)
SetToSortedSeq(S) ==
    IF S = {} THEN <<>>
    ELSE LET m == CHOOSE x \in S : \A y \in S : x <= y
         IN  <<m>> \o SetToSortedSeq(S \ {m})

\* a cell of a value column: a number, or something that is not a number
Num(v) == [isNum |-> TRUE, v |-> v]
NotNum == [isNum |-> FALSE, v |-> 0]

\* pd.to_numeric(errors='coerce').fillna(fill)
ToNumeric(c, fill) == IF c.isNum THEN c.v ELSE fill

Perms(n) == {p \in [1..n -> 1..n] : \A i, j \in 1..n : i # j => p[i] # p[j]}

\* sort_values(by=value, ascending=False).reset_index(drop=True): the result
\* is in descending order; the default sort is not stable, so rows with equal
\* values may come out in any order
SortValuesDesc(rows) ==
    LET n == Len(rows)
    IN  {[i \in 1..n |-> rows[p[i]]] :
            p \in {q \in Perms(n) :
                     \A i \in 1..(n - 1) : rows[q[i]].value >= rows[q[i + 1]].value}}

(***************************************************************************)
(* calculate_percentage_delta                                              *)
(***************************************************************************)
PyNone == [kind |-> "none", v |-> 0]
PyNum(v) == [kind |-> "num", v |-> v]
PyText == [kind |-> "str", v |-> 0]     \* a string that is no number

\* _safe_float
safe_float(value) == IF value.kind = "num" THEN value.v ELSE 0

FloatResult(r) == [kind |-> "float", num |-> r.num, den |-> r.den, text |-> ""]
StrResult(t) == [kind |-> "str", num |-> 0, den |-> 1, text |-> t]
NoneResult == [kind |-> "none", num |-> 0, den |-> 1, text |-> ""]

calculate_percentage_delta_FD(current_value, previous_value) ==
    LET current_val_f == safe_float(current_value)
        previous_val_f == safe_float(previous_value)
    IN  IF previous_val_f = 0 /\ current_val_f = 0 THEN FloatResult(Zero)
        ELSE IF previous_val_f = 0
             THEN FloatResult(IF current_val_f > 0 THEN Rat(100, 1) ELSE Rat(-100, 1))
        ELSE FloatResult(IF previous_val_f > 0
                         THEN Rat((current_val_f - previous_val_f) * 100, previous_val_f)
                         ELSE Rat((previous_val_f - current_val_f) * 100, -previous_val_f))

\* f"{delta:.1f}": the tenths the value is rounded to; a value halfway between
\* two tenths goes to either, as its binary representation decides
RoundedTenths(absnum, den) ==
    LET q == (10 * absnum) \div den
        r == (10 * absnum) % den
    IN  IF 2 * r < den THEN {q}
        ELSE IF 2 * r > den THEN {q + 1}
        ELSE {q, q + 1}

\* f"{sign}{delta:.1f}%" with sign = "+" if delta >= 0 else ""
FormatDelta(delta) ==
    {(IF delta.num < 0 THEN "-" ELSE "+")
        \o ToString(t \div 10) \o "." \o ToString(t % 10) \o "%" :
     t \in RoundedTenths(Abs(delta.num), delta.den)}

\* the set of values the call may return
calculate_percentage_delta_SS(current_value, previous_value) ==
    IF current_value.kind = "none" \/ previous_value.kind = "none" THEN {NoneResult}
    ELSE IF current_value.kind = "str" \/ previous_value.kind = "str"
         THEN {NoneResult}          \* TypeError, caught by handle_errors
    ELSE IF previous_value.v = 0
         THEN IF current_value.v = 0 THEN {StrResult("0.0%")} ELSE {StrResult("N/A")}
    ELSE LET delta == IF previous_value.v > 0
                      THEN Rat((current_value.v - previous_value.v) * 100, previous_value.v)
                      ELSE Rat((previous_value.v - current_value.v) * 100, -previous_value.v)
         IN  {StrResult(t) : t \in FormatDelta(delta)}

DeltaNumbers == {-5, 0, 3, 5, 100, 150}
DeltaValues == {PyNum(v) : v \in DeltaNumbers} \cup {PyNone, PyText}

DeltaInputs == [current_value : DeltaValues, previous_value : DeltaValues]

CalculatePercentageDelta_FD ==
    /\ mode = "input"
    /\ mode' = "delta_FD"
    /\ mOut' = calculate_percentage_delta_FD(mIn.current_value, mIn.previous_value)
    /\ UNCHANGED <<fetchVars, mIn>>

CalculatePercentageDelta_SS ==
    /\ mode = "input"
    /\ mode' = "delta_SS"
    /\ mOut' \in calculate_percentage_delta_SS(mIn.current_value, mIn.previous_value)
    /\ UNCHANGED <<fetchVars, mIn>>

(***************************************************************************)
(* get_top_n_values                                                        *)
(***************************************************************************)
OtherLabel == "Others"
UserNames == <<"u1", "u2", "u3", "u4", "u5", "u6">>

\* df[value_col] = pd.to_numeric(df[value_col], errors='coerce').fillna(0)
CoerceValues(df) ==
    [i \in DOMAIN df |-> [name |-> df[i].name, value |-> ToNumeric(df[i].raw, 0)]]

\* the frame the caller passed, after the call assigned the coerced column
AssignCoerced(df, fill) ==
    [i \in DOMAIN df |-> [df[i] EXCEPT !.raw = Num(ToNumeric(df[i].raw, fill))]]

HeadRows(rows, n) == SubSeq(rows, 1, Min2(n, Len(rows)))
TailRows(rows, n) == SubSeq(rows, n + 1, Len(rows))

\* an Others sum that leaves out the first of the remaining rows
OthersSumSkipsFirst(sorted_df, n) ==
    SumSeq([i \in 1..Len(TailRows(sorted_df, n + 1)) |-> TailRows(sorted_df, n + 1)[i].value])

\* sorted_df.iloc[n:][value_col].sum()
OthersSum(sorted_df, n) ==
    SumSeq([i \in 1..Len(TailRows(sorted_df, n)) |-> TailRows(sorted_df, n)[i].value])

TopNFrame(rows, df_after) == [kind |-> "frame", rows |-> rows, df_after |-> df_after]

\* the set of frames the call may return (sort order of equal values is open)
get_top_n_values_FD(df, n) ==
    IF df = <<>> THEN {TopNFrame(<<>>, df)}
    ELSE UNION {
           LET top_n_df == HeadRows(sorted_df, n)
               result_df ==
                   IF Len(sorted_df) > n
                   THEN Append(top_n_df,
                               [name |-> OtherLabel, value |-> OthersSum(sorted_df, n)])
                   ELSE top_n_df
           IN  {TopNFrame(r, AssignCoerced(df, 0)) : r \in SortValuesDesc(result_df)}
           : sorted_df \in SortValuesDesc(CoerceValues(df))}

get_top_n_values_SS(df, n) ==
    IF df = <<>> THEN {TopNFrame(<<>>, df)}
    ELSE {IF Len(df_sorted) <= n
          THEN TopNFrame(df_sorted, AssignCoerced(df, 0))
          ELSE TopNFrame(Append(HeadRows(df_sorted, n),
                                [name |-> OtherLabel, value |-> OthersSum(df_sorted, n)]),
                         AssignCoerced(df, 0))
          : df_sorted \in SortValuesDesc(CoerceValues(df))}

TopNCells == {Num(2), Num(4), Num(6), NotNum}

TableOf(cells) == [i \in DOMAIN cells |-> [name |-> UserNames[i], raw |-> cells[i]]]

ExampleTable == TableOf(<<Num(10), Num(8), Num(6), Num(4), Num(2)>>)

TopNTables ==
    {TableOf(c) : c \in UNION {[1..k -> TopNCells] : k \in 0..MaxTopRows}}
    \cup {ExampleTable}

TopNInputs == [df : TopNTables, n : 0..MaxN]

GetTopNValues_FD ==
    /\ mode = "input"
    /\ mode' = "top_n_FD"
    /\ mOut' \in get_top_n_values_FD(mIn.df, mIn.n)
    /\ UNCHANGED <<fetchVars, mIn>>

GetTopNValues_SS ==
    /\ mode = "input"
    /\ mode' = "top_n_SS"
    /\ mOut' \in get_top_n_values_SS(mIn.df, mIn.n)
    /\ UNCHANGED <<fetchVars, mIn>>

(***************************************************************************)
(* pivot_for_heatmap and the hourly pivot of the user page                 *)
(***************************************************************************)
HoursOfDay == 24
hours_of_day == [i \in 1..HoursOfDay |-> i - 1]

PivotRow(idx, col, raw) == [idx |-> idx, col |-> col, raw |-> raw]

IndexKeys(df) == {df[i].idx : i \in DOMAIN df}
ColumnKeys(df) == {df[i].col : i \in DOMAIN df}

GroupValues(df, r, c, fill) ==
    LET members == SetToSortedSeq({i \in DOMAIN df : df[i].idx = r /\ df[i].col = c})
    IN  [k \in DOMAIN members |-> ToNumeric(df[members[k]].raw, fill)]

\* one cell of pivot_table: the aggregate of the rows of the group, or the
\* fill value where the group has no row
Aggregate(values, agg_func, fill) ==
    IF values = <<>> THEN Rat(fill, 1)
    ELSE IF agg_func = "sum" THEN Rat(SumSeq(values), 1)
    ELSE IF agg_func = "count" THEN Rat(Len(values), 1)
    ELSE Rat(SumSeq(values), Len(values))

PivotFrame(index, columns, cell, df_after) ==
    [kind |-> "frame", index |-> index, columns |-> columns, cell |-> cell,
     df_after |-> df_after]
NoPivot(df) == [kind |-> "none", index |-> <<>>, columns |-> <<>>, cell |-> <<>>,
                df_after |-> df]
EmptyPivot(df) == PivotFrame(<<>>, <<>>, <<>>, df)

\* df.pivot_table(index, columns, values, aggfunc) with missing cells filled:
\* rows and columns are the keys that occur in df, in ascending order
PivotTable(df, agg_func, fill) ==
    [index |-> SetToSortedSeq(IndexKeys(df)),
     columns |-> SetToSortedSeq(ColumnKeys(df)),
     cell |-> [rc \in IndexKeys(df) \X ColumnKeys(df) |->
                  Aggregate(GroupValues(df, rc[1], rc[2], fill), agg_func, fill)]]

pivot_for_heatmap_FD(df, agg_func) ==
    IF df = <<>> THEN NoPivot(df)
    ELSE LET pivoted_df == PivotTable(df, agg_func, 0)
         IN  PivotFrame(pivoted_df.index, pivoted_df.columns, pivoted_df.cell,
                        AssignCoerced(df, 0))

\* pivot_df[[i for i in range(24) if i in pivot_df.columns]], applied only
\* when the column is QUERY_HOUR and every hour is present
OrderHours_SS(columns_col, columns) ==
    IF columns_col = "QUERY_HOUR" /\ \A h \in 0..(HoursOfDay - 1) : h \in Range(columns)
    THEN SetToSortedSeq({h \in 0..(HoursOfDay - 1) : h \in Range(columns)})
    ELSE columns

pivot_for_heatmap_SS(df, columns_col, fill_value) ==
    IF df = <<>> THEN EmptyPivot(df)
    ELSE LET pivot_df == PivotTable(df, "mean", fill_value)
         IN  PivotFrame(pivot_df.index, OrderHours_SS(columns_col, pivot_df.columns),
                        pivot_df.cell, AssignCoerced(df, fill_value))

\* .reindex(columns=..., fill_value=...)
Reindex(frame, columns, fill_value) ==
    [frame EXCEPT
        !.columns = columns,
        !.cell = [rc \in Range(frame.index) \X Range(columns) |->
                     IF rc[2] \in Range(frame.columns) THEN frame.cell[rc]
                     ELSE Rat(fill_value, 1)]]

\* user_360_page.py: pivot_table(index=pd.Series([0], name='Metric'),
\* columns='QUERY_HOUR', ...).reindex(columns=hours_of_day, fill_value=0).
\* The one-element Series is aligned with the frame's index, so only the row
\* labelled 0 has a group key and the other rows are dropped.
HourPivot_FD(df, agg_func) ==
    LET labelled == <<PivotRow(0, df[1].col, df[1].raw)>>
        pivoted == PivotTable(labelled, agg_func, 0)
    IN  Reindex(PivotFrame(pivoted.index, pivoted.columns, pivoted.cell, df),
                hours_of_day, 0)

PivotRowKeys == {0, 1}
PivotHours == {3, 7}
PivotCells == {Num(1), Num(3), NotNum}
PivotRows == {PivotRow(r, c, v) : r \in PivotRowKeys, c \in PivotHours, v \in PivotCells}
AggFuncs == {"sum", "mean", "count"}
ColumnNames == {"QUERY_HOUR", "HOUR_OF_DAY"}

SparseHoursTable == <<PivotRow(0, 3, Num(1)), PivotRow(0, 7, Num(3))>>
FullHoursTable == [i \in 1..HoursOfDay |-> PivotRow(0, HoursOfDay - i, Num(1))]

PivotTables ==
    UNION {[1..k -> PivotRows] : k \in 0..MaxPivotRows}
    \cup {SparseHoursTable, FullHoursTable}

AllNumeric(df) == \A i \in DOMAIN df : df[i].raw.isNum

PivotInputs == [df : PivotTables, agg_func : AggFuncs, columns_col : ColumnNames]

PivotForHeatmap_FD ==
    /\ mode = "input"
    /\ mode' = "pivot_FD"
    /\ mOut' = pivot_for_heatmap_FD(mIn.df, mIn.agg_func)
    /\ UNCHANGED <<fetchVars, mIn>>

\* the aggregation is pivot_table's default, the fill value the default 0
PivotForHeatmap_SS ==
    /\ mode = "input"
    /\ mode' = "pivot_SS"
    /\ mOut' = pivot_for_heatmap_SS(mIn.df, mIn.columns_col, 0)
    /\ UNCHANGED <<fetchVars, mIn>>

\* the page pivots only a fetched table that is not empty; its value columns
\* are the numeric results of AVG and COUNT
RenderHourHeatmap_FD ==
    /\ mode = "input"
    /\ mIn.df # <<>> /\ AllNumeric(mIn.df)
    /\ mIn.agg_func \in {"mean", "sum"}
    /\ mode' = "page_pivot_FD"
    /\ mOut' = HourPivot_FD(mIn.df, mIn.agg_func)
    /\ UNCHANGED <<fetchVars, mIn>>

(***************************************************************************)
(* identify_high_impact_users                                              *)
(***************************************************************************)
HighPercentileDefault == 90
MediumPercentileDefault == 70

\* the k-th smallest element of a sequence of numbers (k in 1..Len)
KthSmallest(costs, k) ==
    CHOOSE v \in Range(costs) :
        /\ Cardinality({i \in DOMAIN costs : costs[i] < v}) < k
        /\ k <= Cardinality({i \in DOMAIN costs : costs[i] <= v})

\* 100 * Series.quantile(percentile / 100), linear interpolation between the
\* two order statistics around position (n - 1) * percentile / 100
Quantile100(costs, percentile) ==
    LET n == Len(costs)
        pos == (n - 1) * percentile
        lo == pos \div 100
        frac == pos % 100
        a == KthSmallest(costs, lo + 1)
        b == KthSmallest(costs, Min2(lo + 2, n))
    IN  100 * a + frac * (b - a)

PRIORITY_LEVELS_FD ==
    [k \in {"High Priority", "Medium Priority", "Low Priority"} |-> [label |-> k]]

LevelOfLabel_FD(label) ==
    IF label = PRIORITY_LEVELS_FD["High Priority"].label THEN 3
    ELSE IF label = PRIORITY_LEVELS_FD["Medium Priority"].label THEN 2
    ELSE 1

assign_priority_FD(cost, high_threshold100, medium_threshold100) ==
    IF 100 * cost >= high_threshold100 THEN PRIORITY_LEVELS_FD["High Priority"]
    ELSE IF 100 * cost >= medium_threshold100 THEN PRIORITY_LEVELS_FD["Medium Priority"]
    ELSE PRIORITY_LEVELS_FD["Low Priority"]

\* the columns of the frame the caller passes, and the ones the call adds
InputColumns == {"USER_NAME", "TOTAL_CREDITS_USED"}
PriorityColumns_SS ==
    {"PRIORITY_LEVEL", "PRIORITY_LABEL", "PRIORITY_BG_COLOR", "PRIORITY_TEXT_COLOR",
     "PRIORITY_ICON"}

\* the frame returned, and the rows and the columns of the caller's frame
\* after the call
PriorityFrame(labels, levels, df_after, columns_after) ==
    [kind |-> "frame", PRIORITY_LABEL |-> labels, PRIORITY_LEVEL |-> levels,
     df_after |-> df_after, columns_after |-> columns_after]

identify_high_impact_users_FD(users_df, high_cost_threshold_percentile, medium_cost_threshold_percentile) ==
    IF users_df = <<>> THEN PriorityFrame(<<>>, <<>>, users_df, InputColumns)
    ELSE LET high_threshold == Quantile100(users_df, high_cost_threshold_percentile)
             medium_threshold == Quantile100(users_df, medium_cost_threshold_percentile)
             labels == [i \in DOMAIN users_df |->
                          assign_priority_FD(users_df[i], high_threshold,
                                             medium_threshold).label]
         IN  PriorityFrame(labels,
                           [i \in DOMAIN users_df |-> LevelOfLabel_FD(labels[i])],
                           users_df, InputColumns)

\* labels of config.PRIORITY_LEVELS (without their icons)
PRIORITY_LEVELS_SS ==
    [k \in {"High Priority", "Medium Priority", "Above Avg Cost", "Good Performance"} |->
        [label |-> IF k = "High Priority" THEN "High Priority: >2x Avg Cost"
                   ELSE IF k = "Medium Priority" THEN "Medium Priority: >1.5x Avg Cost"
                   ELSE k]]

\* avg_cost = sum / n; the multiplier is the rational mult_num / mult_den
assign_priority_SS(row_cost, sum, n, mult_num, mult_den) ==
    IF sum = 0 THEN "Good Performance"
    ELSE IF row_cost * n > sum * 2 THEN "High Priority"
    ELSE IF row_cost * n * mult_den > sum * mult_num THEN "Medium Priority"
    ELSE IF row_cost * n > sum THEN "Above Avg Cost"
    ELSE "Good Performance"

identify_high_impact_users_SS(df, mult_num, mult_den) ==
    IF df = <<>> THEN PriorityFrame(<<>>, <<>>, df, InputColumns)
    ELSE LET levels == [i \in DOMAIN df |->
                           assign_priority_SS(df[i], SumSeq(df), Len(df),
                                              mult_num, mult_den)]
         IN  PriorityFrame([i \in DOMAIN df |-> PRIORITY_LEVELS_SS[levels[i]].label],
                           levels, df, InputColumns \cup PriorityColumns_SS)

\* UniformRows costs spread evenly, ascending or descending
UniformTable(start, step, ascending) ==
    [i \in 1..UniformRows |->
        IF ascending THEN start + step * (i - 1) ELSE start + step * (UniformRows - i)]

UniformTables ==
    {UniformTable(a, s, o) : a \in 1..MaxStart, s \in 1..MaxStep, o \in BOOLEAN}

PriorityCosts == {0, 1, 5}
PriorityTables ==
    UNION {[1..k -> PriorityCosts] : k \in 0..MaxPriorityRows} \cup UniformTables

Percentiles == {<<HighPercentileDefault, MediumPercentileDefault>>, <<50, 25>>}

PriorityInputs ==
    {[df |-> df, high |-> pc[1], medium |-> pc[2]] :
        df \in PriorityTables, pc \in Percentiles}

IdentifyHighImpactUsers_FD ==
    /\ mode = "input"
    /\ mode' = "priority_FD"
    /\ mOut' = identify_high_impact_users_FD(mIn.df, mIn.high, mIn.medium)
    /\ UNCHANGED <<fetchVars, mIn>>

\* takes no percentiles; avg_cost_threshold_multiplier is its default 1.5
IdentifyHighImpactUsers_SS ==
    /\ mode = "input"
    /\ mode' = "priority_SS"
    /\ mOut' = identify_high_impact_users_SS(mIn.df, 3, 2)
    /\ UNCHANGED <<fetchVars, mIn>>

(***************************************************************************)
(* Specifications of the metric engine                                     *)
(***************************************************************************)
\* the state before a call of a metric function on the given inputs
InitMetrics(inputs) ==
    /\ variant = "none"
    /\ files = {}
    /\ baseDir = ""
    /\ registry = EmptyRegistry
    /\ loaded = FALSE
    /\ cache = EmptyCache
    /\ now = 0
    /\ last = [op |-> "init"]
    /\ mode = "input"
    /\ mIn \in inputs
    /\ mOut = <<>>

InitDelta == InitMetrics(DeltaInputs)
NextDelta ==
    \/ CalculatePercentageDelta_FD
    \/ CalculatePercentageDelta_SS

SpecDelta == InitDelta /\ [][NextDelta]_vars

InitTopN == InitMetrics(TopNInputs)
NextTopN ==
    \/ GetTopNValues_FD
    \/ GetTopNValues_SS

SpecTopN == InitTopN /\ [][NextTopN]_vars

InitPivot == InitMetrics(PivotInputs)
NextPivot ==
    \/ PivotForHeatmap_FD
    \/ PivotForHeatmap_SS
    \/ RenderHourHeatmap_FD

SpecPivot == InitPivot /\ [][NextPivot]_vars

InitPriority == InitMetrics(PriorityInputs)
NextPriority ==
    \/ IdentifyHighImpactUsers_FD
    \/ IdentifyHighImpactUsers_SS

SpecPriority == InitPriority /\ [][NextPriority]_vars

(***************************************************************************)
(* Claims about the metric engine                                          *)
(***************************************************************************)
\* the delta the contract prescribes for two numbers
ExpectedDelta(c, p) ==
    IF p = 0 /\ c = 0 THEN Zero
    ELSE IF p = 0 THEN (IF c > 0 THEN Rat(100, 1) ELSE Rat(-100, 1))
    ELSE IF p > 0 THEN Rat((c - p) * 100, p)
    ELSE Rat((p - c) * 100, -p)

\* C5: Percentage delta: for numeric current and previous the result is the
\* number 0 when both are zero, +100 / -100 when previous is zero and
\* current is positive / negative, and (current - previous) / previous * 100
\* otherwise.
C5_PercentageDelta ==
    (/\ mode \in {"delta_FD", "delta_SS"}
     /\ mIn.current_value.kind = "num" /\ mIn.previous_value.kind = "num") =>
        mOut = FloatResult(ExpectedDelta(mIn.current_value.v, mIn.previous_value.v))

TopNCall == mode \in {"top_n_FD", "top_n_SS"} /\ mIn.df # <<>>
InputNames == {mIn.df[i].name : i \in DOMAIN mIn.df}
InputValue(name) ==
    LET i == CHOOSE j \in DOMAIN mIn.df : mIn.df[j].name = name
    IN  ToNumeric(mIn.df[i].raw, 0)
InputSum(names) ==
    LET at == SetToSortedSeq({j \in DOMAIN mIn.df : mIn.df[j].name \in names})
    IN  SumSeq([k \in DOMAIN at |-> ToNumeric(mIn.df[at[k]].raw, 0)])
OthersAt == {i \in DOMAIN mOut.rows : mOut.rows[i].name = OtherLabel}
KeptAt == DOMAIN mOut.rows \ OthersAt
KeptNames == {mOut.rows[i].name : i \in KeptAt}
OutputSum == SumSeq([i \in DOMAIN mOut.rows |-> mOut.rows[i].value])

\* C6: TopNWithOverflow: for a non-empty table and n >= 0 the output keeps n
\* rows of the input with the largest values; when the table has more than n
\* rows it has exactly one Others row whose value is the sum of the rows not
\* kept, and no Others row otherwise; the output values sum to the input
\* values.
C6_TopNWithOverflow ==
    TopNCall =>
        /\ mOut.kind = "frame"
        /\ Cardinality(KeptAt) = Cardinality(KeptNames)
        /\ KeptNames \subseteq InputNames
        /\ \A i \in KeptAt : mOut.rows[i].value = InputValue(mOut.rows[i].name)
        /\ \A k \in KeptNames : \A x \in InputNames \ KeptNames :
              InputValue(k) >= InputValue(x)
        /\ IF Len(mIn.df) > mIn.n
           THEN /\ Cardinality(KeptNames) = mIn.n
                /\ Cardinality(OthersAt) = 1
                /\ \A i \in OthersAt :
                      mOut.rows[i].value = InputSum(InputNames \ KeptNames)
           ELSE /\ OthersAt = {}
                /\ KeptNames = InputNames
        /\ OutputSum = InputSum(InputNames)

\* C6 witness: [10, 8, 6, 4, 2] with n = 3 gives 10, 8, 6 and Others = 6
C6_Witness ==
    /\ mode = "top_n_FD"
    /\ mIn.df = ExampleTable /\ mIn.n = 3
    /\ mOut.rows = <<[name |-> "u1", value |-> 10], [name |-> "u2", value |-> 8],
                     [name |-> "u3", value |-> 6], [name |-> OtherLabel, value |-> 6]>>

InputHours == {mIn.df[i].col : i \in DOMAIN mIn.df}

\* C7: PivotForMatrix padding: the pivot output has a column for every hour
\* of the declared range 0..23, and a column no input row produced holds only
\* zero.
C7_PivotPadding ==
    (mode \in {"pivot_FD", "pivot_SS", "page_pivot_FD"} /\ mIn.df # <<>>) =>
        /\ mOut.kind = "frame"
        /\ Len(mOut.columns) = HoursOfDay
        /\ \A h \in 0..(HoursOfDay - 1) :
              /\ h \in Range(mOut.columns)
              /\ h \notin InputHours =>
                    \A r \in Range(mOut.index) : mOut.cell[<<r, h>>] = Zero

HighCount ==
    Cardinality({i \in DOMAIN mOut.PRIORITY_LEVEL :
                    IF mode = "priority_FD" THEN mOut.PRIORITY_LEVEL[i] = 3
                    ELSE mOut.PRIORITY_LEVEL[i] = "High Priority"})

\* C8: Priority bucketing on a uniform distribution: for a table of
\* UniformRows (100) evenly spread values, identify_high_impact_users called
\* for high percentile 90 classifies as High a number of rows within one of a
\* tenth of the table.
C8_UniformPriority ==
    (/\ mode \in {"priority_FD", "priority_SS"}
     /\ mIn.df \in UniformTables
     /\ mIn.high = HighPercentileDefault) =>
        /\ 10 * HighCount >= UniformRows - 10
        /\ 10 * HighCount <= UniformRows + 10

EditQueryFiles ==
    /\ files' \in FileSystems \ {files}
    /\ last' = [op |-> "edit"]
    /\ UNCHANGED <<variant, baseDir, registry, loaded, cache, now, metricVars>>

NextReload ==
    \/ NextRegistry
    \/ EditQueryFiles

SpecReload == InitRegistry /\ [][NextReload]_vars

\* a load has completed and left templates in the registry
LoadCompleted == registry # EmptyRegistry

\* C11: Registry immutability after load: once a load has completed, no later
\* operation (a further load_all_queries, a lookup) changes the set of
\* namespaces or the text of a template.
C11_RegistryImmutable ==
    [][LoadCompleted => registry' = registry]_vars

(***************************************************************************)
(* Addresses that are not namespace.query_name                             *)
(***************************************************************************)
DotCount(addr) == Cardinality({i \in DOMAIN addr : addr[i] = Dot})

\* the address of the last fetch does not have exactly two segments
MalformedFetch == last.op = "fetch" /\ DotCount(last.addr) # 1

ClausePlaceholder == <<Field("user_name_filter_clause")>>

\* a template of a query file that names a placeholder the resolver has no
\* rule for
T_credits_by_warehouse ==
    <<"SELECT SUM(credits_used) FROM", Field("warehouse_metering_history_table"),
      "WHERE warehouse_name =", Quote, Field("warehouse_name"), Quote>>

\* a template that names the optional filter in two places
T_credits_both_periods ==
    <<"SELECT SUM(credits_used) FROM", Field("query_history_table"),
      "WHERE start_time >=", Quote, Field("start_date"), Quote,
      Field("user_name_filter_clause"),
      "UNION ALL SELECT SUM(credits_used) FROM", Field("query_history_table"),
      "WHERE start_time <", Quote, Field("start_date"), Quote,
      Field("user_name_filter_clause")>>

Templates_FD == {T_get_all_users, T_total_credit_usage_FD, T_top_users_by_cost_FD, T_credits_by_warehouse}
Templates_FS == {T_total_credit_usage_FS, T_total_credit_usage_previous_period_FS, T_credits_by_warehouse, T_credits_both_periods}

\* the values a caller may give under each parameter name
ParamValues ==
    [start_date |-> {None, D1},
     end_date |-> {None, D2},
     user_name |-> {None, Str(Evil)},
     user_name_filter_clause |-> {None, Str(<<>>), Str(UserNameFilterClause_FD(Evil))},
     query_history_table |-> {Str(<<"OTHER_DB.PUBLIC.QUERY_LOG">>)}]

\* every dict over a subset of those names
ParamSets ==
    UNION {{d \in [ks -> UNION {ParamValues[k] : k \in ks}] : \A k \in ks : d[k] \in ParamValues[k]} : ks \in SUBSET DOMAIN ParamValues}

ResolveInputs ==
    {[query_text |-> t, params |-> d] : t \in Templates_FD \cup Templates_FS, d \in ParamSets}

\* _execute_snowpark_query_cached (FD), uncached
ExecuteQuery_FD(outcome) ==
    /\ mode = "input"
    /\ mIn.query_text \in Templates_FD
    /\ mode' = "execute_FD"
    /\ mOut' = Compute_FD(Template(mIn.query_text), mIn.params, outcome)
    /\ UNCHANGED <<fetchVars, mIn>>

\* _execute_snowpark_query_cached (FS), uncached
ExecuteQuery_FS(outcome) ==
    /\ mode = "input"
    /\ mIn.query_text \in Templates_FS
    /\ mode' = "execute_FS"
    /\ mOut' = Compute_FS(Template(mIn.query_text), mIn.params, outcome)
    /\ UNCHANGED <<fetchVars, mIn>>

InitResolve == InitMetrics(ResolveInputs)
NextResolve ==
    \/ \E o \in ExecOutcomes : ExecuteQuery_FD(o)
    \/ \E o \in ExecOutcomes : ExecuteQuery_FS(o)

SpecResolve == InitResolve /\ [][NextResolve]_vars

Executed == mode \in {"execute_FD", "execute_FS"}

\* the template of the call carries the optional filter clause
HasClause == Occurs(ClausePlaceholder, mIn.query_text)

\* the parameter that controls the clause is present and not None
ClauseParamGiven ==
    IF mode = "execute_FD"
    THEN HasKey(mIn.params, "user_name_filter_clause") /\ ~mIn.params["user_name_filter_clause"].isNone
    ELSE HasUser_FS(mIn.params)

\* the clause a given parameter stands for
ClauseText ==
    IF mode = "execute_FD" THEN mIn.params["user_name_filter_clause"].s
    ELSE <<"AND user_name =", Marker>>

\* the query with the clause already decided and every other placeholder
\* resolved as the variant resolves it
ClauseExpected ==
    LET text == Replace(mIn.query_text, ClausePlaceholder,
                        IF ClauseParamGiven THEN ClauseText ELSE <<>>)
    IN  IF mode = "execute_FD" THEN Resolve_FD(text, mIn.params)
        ELSE Resolve_FS(text, mIn.params)

\* C13: Optional clause resolution: for a template with the optional filter
\* placeholder, the query handed to the executor carries the filter clause
\* exactly when the controlling parameter is present and not None; when it is
\* absent or None (an empty parameter set included) the placeholder becomes
\* the empty string and no placeholder text remains.
C13_OptionalClause ==
    (Executed /\ HasClause /\ ClauseExpected.err = "") =>
        /\ mOut.invoked
        /\ mOut.sql = ClauseExpected.sql
        /\ ~Occurs(ClausePlaceholder, mOut.sql)

\* a placeholder token is left in the text
Unresolved(sql) == \E i \in DOMAIN sql : IsField(sql[i])

\* C14: Unresolvable placeholders fail: a query that still contains a
\* placeholder (a required parameter was not supplied, or the placeholder has
\* no rule) is never handed to the executor; the resolution fails instead.
C14_UnresolvedNeverExecuted ==
    (Executed /\ mOut.invoked) => ~Unresolved(mOut.sql)

\* the table placeholders of the template of the call
StructuralIn(text) == {n \in StructuralNames : Occurs(<<Field(n)>>, text)}

\* the caller gave a parameter named like a table placeholder
CallerNamesTable == DOMAIN mIn.params \cap StructuralNames # {}

\* the values the caller gave under table names
CallerTableTexts == {PyStr(mIn.params[n]) : n \in DOMAIN mIn.params \cap StructuralNames}

delta_color_by_sign_FD(delta, higher_is_better) ==
    IF delta.kind = "none" THEN "off"
    ELSE IF delta.num > 0 THEN "normal"
    ELSE IF delta.num < 0 THEN "inverse"
    ELSE "off"

\* FD determine_delta_color(delta, higher_is_better)
determine_delta_color_FD(delta, higher_is_better) ==
    IF delta.kind = "none" THEN "off"
    ELSE IF delta.num > 0 THEN (IF higher_is_better THEN "normal" ELSE "inverse")
    ELSE IF delta.num < 0 THEN (IF higher_is_better THEN "inverse" ELSE "normal")
    ELSE "off"

\* SS determine_delta_color(current_value, previous_value, higher_is_better)
determine_delta_color_SS(current_value, previous_value, higher_is_better) ==
    IF current_value.kind = "none" \/ previous_value.kind = "none"
       \/ current_value.v = previous_value.v
    THEN "off"
    ELSE IF current_value.v > previous_value.v
         THEN (IF higher_is_better THEN "normal" ELSE "inverse")
    ELSE (IF ~higher_is_better THEN "normal" ELSE "inverse")

\* st.metric(delta = None)
NoDelta == "<None>"

\* f"{delta_value:.1f}%"
FormatDelta_FD(delta) ==
    {(IF delta.num < 0 THEN "-" ELSE "")
        \o ToString(t \div 10) \o "." \o ToString(t % 10) \o "%" :
     t \in RoundedTenths(Abs(delta.num), delta.den)}

Card(delta_value, delta, delta_color) ==
    [delta_value |-> delta_value, delta |-> delta, delta_color |-> delta_color]

\* FD build_metric_card: what st.metric is given (the set of possible calls)
build_metric_card_FD(current_value, previous_value, higher_is_better_for_delta) ==
    IF previous_value.kind = "none" THEN {Card(NoneResult, NoDelta, "off")}
    ELSE LET delta_value == calculate_percentage_delta_FD(current_value, previous_value)
         IN  IF delta_value.kind = "none" THEN {Card(delta_value, "N/A", "off")}
             ELSE {Card(delta_value, t,
                        determine_delta_color_FD(delta_value, higher_is_better_for_delta)) :
                   t \in FormatDelta_FD(delta_value)}

\* fin/src build_metric_card: the delta is the string of the SS
\* calculate_percentage_delta, the colour comes from the two values
build_metric_card_SS(current_value, previous_value, higher_is_better_for_delta) ==
    IF previous_value.kind = "none" THEN {Card(NoneResult, NoDelta, "off")}
    ELSE {IF r.kind = "none" THEN Card(r, "N/A", "off")
          ELSE Card(r, r.text,
                    determine_delta_color_SS(current_value, previous_value,
                                             higher_is_better_for_delta)) :
          r \in calculate_percentage_delta_SS(current_value, previous_value)}

CardValues == {PyNum(v) : v \in DeltaNumbers} \cup {PyNone}

CardInputs ==
    [current_value : CardValues, previous_value : CardValues, higher_is_better : BOOLEAN]

BuildMetricCard_FD ==
    /\ mode = "input"
    /\ mode' = "card_FD"
    /\ mOut' \in build_metric_card_FD(mIn.current_value, mIn.previous_value, mIn.higher_is_better)
    /\ UNCHANGED <<fetchVars, mIn>>

BuildMetricCard_SS ==
    /\ mode = "input"
    /\ mode' = "card_SS"
    /\ mOut' \in build_metric_card_SS(mIn.current_value, mIn.previous_value, mIn.higher_is_better)
    /\ UNCHANGED <<fetchVars, mIn>>

\* determine_delta_color (FD) called on its own, on the delta of the two
\* values, or on None when there is no previous value
DetermineDeltaColor_FD ==
    /\ mode = "input"
    /\ mode' = "color_FD"
    /\ LET delta == IF mIn.previous_value.kind = "none" THEN NoneResult
                    ELSE calculate_percentage_delta_FD(mIn.current_value, mIn.previous_value)
       IN  mOut' = Card(delta, NoDelta, determine_delta_color_FD(delta, mIn.higher_is_better))
    /\ UNCHANGED <<fetchVars, mIn>>

InitCard == InitMetrics(CardInputs)
NextCard ==
    \/ BuildMetricCard_FD
    \/ BuildMetricCard_SS
    \/ DetermineDeltaColor_FD

SpecCard == InitCard /\ [][NextCard]_vars

\* the three values of determine_delta_color (FD), by the name its docstring
\* gives each: "normal" is the good direction, "inverse" the bad one
Direction(color) ==
    IF color = "normal" THEN "improved"
    ELSE IF color = "inverse" THEN "regressed"
    ELSE "unchanged"

\* C16: Direction classification: a delta above zero is improved when higher
\* is better and regressed when it is not, a delta below zero the other way
\* round, and a delta of zero or None is unchanged.
C16_DirectionClassification ==
    mode \in {"card_FD", "color_FD"} =>
        Direction(mOut.delta_color) =
            (IF mOut.delta_value.kind = "none" \/ mOut.delta_value.num = 0 THEN "unchanged"
             ELSE IF (mOut.delta_value.num > 0) = mIn.higher_is_better THEN "improved"
             ELSE "regressed")

\* a cost that fell: delta below zero, lower is better
C16_Witness ==
    /\ mode = "card_FD"
    /\ mOut.delta_value.kind = "float" /\ mOut.delta_value.num < 0
    /\ ~mIn.higher_is_better
    /\ Direction(mOut.delta_color) = "improved"

\* the delta text reads as a decrease (it starts with a minus sign)
IsNegative(text) == Len(text) > 0 /\ SubSeq(text, 1, 1) = "-"

\* the colour of the delta under the meaning the docstring of
\* determine_delta_color (SS) gives the three values: 'normal' is green for
\* positive and red for negative, 'inverse' the opposite, 'off' no colour
RenderedColour(card) ==
    IF card.delta = NoDelta \/ card.delta_color = "off" THEN "off"
    ELSE IF card.delta_color = "normal"
         THEN (IF IsNegative(card.delta) THEN "red" ELSE "green")
    ELSE (IF IsNegative(card.delta) THEN "green" ELSE "red")

BothNumbers == mIn.current_value.kind = "num" /\ mIn.previous_value.kind = "num"

\* the colour the change of the input deserves
DeservedColour ==
    IF ~BothNumbers \/ mIn.current_value.v = mIn.previous_value.v THEN "off"
    ELSE IF (mIn.current_value.v > mIn.previous_value.v) = mIn.higher_is_better THEN "green"
    ELSE "red"

\* C17: Delta colour versus rendering semantics (src/src variant): the delta
\* of a card is rendered green exactly when the change is in the good
\* direction (up when higher is better, down when lower is better), red when
\* it is in the bad direction, and without colour when the two values are
\* equal or one of them is None.
C17_RenderedColour ==
    mode = "card_SS" => RenderedColour(mOut) = DeservedColour

(***************************************************************************)
(* Priority buckets                                                        *)
(***************************************************************************)
PriorityCall == mode \in {"priority_FD", "priority_SS"} /\ mIn.df # <<>>

\* the bucket row i was given: the label in FD, the level name in SS
BucketOf(i) ==
    IF mode = "priority_FD" THEN mOut.PRIORITY_LABEL[i] ELSE mOut.PRIORITY_LEVEL[i]

\* the numeric rank stored with row i (SS stores none)
RankOf(i) == IF mode = "priority_FD" THEN mOut.PRIORITY_LEVEL[i] ELSE 0

\* the bucket the percentile thresholds of the table of the call give row i
PercentileBucket(i) ==
    IF 100 * mIn.df[i] >= Quantile100(mIn.df, mIn.high) THEN "High Priority"
    ELSE IF 100 * mIn.df[i] >= Quantile100(mIn.df, mIn.medium) THEN "Medium Priority"
    ELSE "Low Priority"

BucketOrder(b) ==
    IF b = "High Priority" THEN 3 ELSE IF b = "Medium Priority" THEN 2 ELSE 1

\* C18: Priority assignment: for a non-empty table every row gets exactly one
\* of three buckets, decided by the high and medium percentile thresholds of
\* the table of this call: High at or above the high threshold, else Medium
\* at or above the medium threshold, else Low; and a row of a higher bucket
\* carries a larger numeric rank.
C18_PriorityAssignment ==
    PriorityCall =>
        /\ DOMAIN mOut.PRIORITY_LABEL = DOMAIN mIn.df
        /\ \A i \in DOMAIN mIn.df : BucketOf(i) = PercentileBucket(i)
        /\ \A i, j \in DOMAIN mIn.df :
              BucketOrder(BucketOf(i)) > BucketOrder(BucketOf(j)) => RankOf(i) > RankOf(j)

(***************************************************************************)
(* Top-N: rows of equal value at the boundary                              *)
(***************************************************************************)
\* the position of a name in the input table
InputIndex(name) == CHOOSE j \in DOMAIN mIn.df : mIn.df[j].name = name

\* C19: Top-N tie-breaking: when rows of equal value compete for the last
\* kept places, get_top_n_values keeps the ones that come first in the input
\* and folds the later ones into Others.
C19_TopNTieBreaking ==
    (TopNCall /\ Len(mIn.df) > mIn.n) =>
        \A k \in KeptNames : \A x \in InputNames \ KeptNames :
            InputValue(k) = InputValue(x) => InputIndex(k) < InputIndex(x)

(***************************************************************************)
(* Pivot cells                                                             *)
(***************************************************************************)
PivotCall == mode \in {"pivot_FD", "pivot_SS"} /\ mIn.df # <<>>

\* the input rows of one (row key, column key) combination
Contributing(r, c) == {i \in DOMAIN mIn.df : mIn.df[i].idx = r /\ mIn.df[i].col = c}

ContributedSum(r, c) ==
    LET at == SetToSortedSeq(Contributing(r, c))
    IN  SumSeq([k \in DOMAIN at |-> ToNumeric(mIn.df[at[k]].raw, 0)])

\* the aggregation the caller asked for, over the contributing rows
RequestedCell(r, c) ==
    IF Contributing(r, c) = {} THEN Zero
    ELSE IF mIn.agg_func = "sum" THEN Rat(ContributedSum(r, c), 1)
    ELSE IF mIn.agg_func = "count" THEN Rat(Cardinality(Contributing(r, c)), 1)
    ELSE Rat(ContributedSum(r, c), Cardinality(Contributing(r, c)))

\* C20: Pivot aggregation: every cell of the pivot holds the aggregation the
\* caller specified (sum, mean or count) of the values of the input rows
\* with its row key and column key, and a combination no input row has holds
\* zero.
C20_PivotAggregation ==
    PivotCall =>
        /\ mOut.kind = "frame"
        /\ \A r \in IndexKeys(mIn.df), c \in ColumnKeys(mIn.df) :
              mOut.cell[<<r, c>>] = RequestedCell(r, c)

(***************************************************************************)
(* Calls on a table without rows                                           *)
(***************************************************************************)
\* C21: No-data outcome of derived metrics: a derived-metric operation given
\* an empty table (the branch that also takes a table lacking a required
\* column) returns an empty table of its normal result type; here for the
\* pivot, whose normal result is a frame.
C21_NoDataOutcome ==
    (mode \in {"pivot_FD", "pivot_SS"} /\ mIn.df = <<>>) =>
        /\ mOut.kind = "frame"
        /\ mOut.index = <<>> /\ mOut.cell = <<>>

(***************************************************************************)
(* What the caller of a fetch is handed                                    *)
(***************************************************************************)
\* fetch_metric_value on the table fetch_data returned: the first cell, or
\* None when the table is None or has no row
fetch_metric_value(df) ==
    IF df.kind = "df" /\ df.rows # "EMPTY" THEN <<"cell", df.rows>> ELSE <<"None">>

\* the answer of the warehouse to a query that selects no row
ZeroRows == [ok |-> TRUE, rows |-> "EMPTY"]

\* what fetch_data returns for a query that ran and selected no row
ZeroRowResult ==
    IF variant = "FD" THEN Compute_FD(Template(T_get_all_users), EmptyDict, ZeroRows).value
    ELSE Compute_FS(Template(T_get_all_users), EmptyDict, ZeroRows).value

\* the last fetch failed before any query ran: unknown namespace, unknown key
\* or malformed address
FailedResolution == last.op = "fetch" /\ last.lookup.tag # "ok"

\* C22: Resolution and registry errors are surfaced: what the caller of
\* fetch_data, and of fetch_metric_value, gets for a fetch that failed at
\* the lookup differs from what it gets for a query that ran and
\* returned zero rows.
C22_ErrorsSurfaced ==
    FailedResolution =>
        /\ last.result # ZeroRowResult
        /\ fetch_metric_value(last.result) # fetch_metric_value(ZeroRowResult)

(***************************************************************************)
(* Two cached calls in a row: the key st.cache_data makes of the arguments *)
(***************************************************************************)
\* a Python dict as it is built: its items in insertion order
DictOf(items) == [n \in {items[i][1] : i \in DOMAIN items} |->
                     (CHOOSE it \in Range(items) : it[1] = n)[2]]

\* st.cache_data hashes a dict argument item by item, in iteration order
HashDict(items) == items

\* the key of _execute_snowpark_query_cached for one call
ArgumentsKey(v, session, query_text, items) ==
    IF v = "FD" THEN CacheKey_FD(session, Template(query_text), HashDict(items))
    ELSE CacheKey_FS(session, Template(query_text), HashDict(items), A_total_credit_usage_FS)

\* the filter parameters of the FS callers, item by item
FilterItems == <<<<"start_date", D1>>, <<"end_date", D2>>, <<"user_name", Str(Evil)>>>>

Orderings(items) == {[i \in DOMAIN items |-> items[p[i]]] : p \in Perms(Len(items))}

CallerSessions == {"s1", "s2"}

\* two calls for one template with the same names and values
TwoCallInputs ==
    [v : {"FD", "FS"},
     query_text : {T_total_credit_usage_FS},
     first : [session : CallerSessions, items : Orderings(FilterItems)],
     second : [session : CallerSessions, items : Orderings(FilterItems)]]

\* the first call finds the cache empty: the body runs, the entry is stored
FirstCachedCall ==
    /\ mode = "input"
    /\ mode' = "first"
    /\ LET key == ArgumentsKey(mIn.v, mIn.first.session, mIn.query_text, mIn.first.items)
       IN  mOut' = [keys |-> {key}, hit |-> FALSE, invocations |-> 1]
    /\ UNCHANGED <<fetchVars, mIn>>

\* the second call, within ttl: a hit when its key is the stored one
SecondCachedCall ==
    /\ mode = "first"
    /\ mode' = "second"
    /\ LET key == ArgumentsKey(mIn.v, mIn.second.session, mIn.query_text, mIn.second.items)
       IN  mOut' = [keys |-> mOut.keys \cup {key},
                    hit |-> key \in mOut.keys,
                    invocations |-> IF key \in mOut.keys THEN 1 ELSE 2]
    /\ UNCHANGED <<fetchVars, mIn>>

InitTwoCalls == InitMetrics(TwoCallInputs)
NextTwoCalls ==
    \/ FirstCachedCall
    \/ SecondCachedCall

SpecTwoCalls == InitTwoCalls /\ [][NextTwoCalls]_vars

\* C23: Cache key canonicalisation: two cached calls for the same template
\* whose parameter sets hold the same names and values, built in any order,
\* use one cache key: the second call is a hit and the executor ran once.
C23_KeyCanonical ==
    (/\ mode = "second"
     /\ mIn.first.session = mIn.second.session
     /\ DictOf(mIn.first.items) = DictOf(mIn.second.items)) =>
        /\ mOut.hit
        /\ mOut.invocations = 1
        /\ Cardinality(mOut.keys) = 1

\* C24: Process-wide sharing: an entry stored by one consumer is returned to
\* another consumer, with another session, that issues the identical
\* request within ttl; the executor does not run a second time.
C24_SharedAcrossSessions ==
    (/\ mode = "second"
     /\ mIn.first.session # mIn.second.session
     /\ mIn.first.items = mIn.second.items) =>
        /\ mOut.hit
        /\ mOut.invocations = 1

(***************************************************************************)
(* Two callers of the cached function at the same time.  st.cache_data     *)
(* reads the cache, and on a miss runs the body and writes the result;     *)
(* whether the library serialises the misses of one key by a lock is left  *)
(* open (mIn.locking).                                                     *)
(***************************************************************************)
Callers == {"c1", "c2"}

NotYet == [kind |-> "pending", rows |-> ""]

\* the request both callers issue
SharedRequest(v) ==
    IF v = "FD" THEN [text |-> T_total_credit_usage_FD, params |-> Params_FD(Evil)]
    ELSE [text |-> T_total_credit_usage_FS, params |-> Params_FS(Evil)]

SharedKey(v) ==
    IF v = "FD" THEN CacheKey_FD("s1", Template(SharedRequest(v).text), SharedRequest(v).params)
    ELSE CacheKey_FS("s1", Template(SharedRequest(v).text), SharedRequest(v).params,
                     A_total_credit_usage_FS)

\* the body of the cached function for that request
RunBody(v, outcome) ==
    IF v = "FD"
    THEN Compute_FD(Template(SharedRequest(v).text), SharedRequest(v).params, outcome)
    ELSE Compute_FS(Template(SharedRequest(v).text), SharedRequest(v).params, outcome)

\* a write that loses the result
WriteNothing(c, key, value, t) == c

\* the cache after the result of a miss is written
WriteResult(c, key, value, t) ==
    [k \in DOMAIN c \cup {key} |-> IF k = key THEN [value |-> value, created |-> t] ELSE c[k]]

InitConcurrent ==
    /\ variant = "none"
    /\ files = {}
    /\ baseDir = ""
    /\ registry = EmptyRegistry
    /\ loaded = FALSE
    /\ cache = EmptyCache
    /\ now = 0
    /\ last = [op |-> "init"]
    /\ mode = "concurrent"
    /\ mIn \in {[v |-> v, locking |-> l, body |-> [o \in ExecOutcomes |-> RunBody(v, o)]] :
                   v \in {"FD", "FS"}, l \in BOOLEAN}
    /\ mOut = [pc |-> [c \in Callers |-> "start"],
               got |-> [c \in Callers |-> NotYet],
               computed |-> [c \in Callers |-> NotYet],
               invoked |-> [c \in Callers |-> 0],
               lock |-> "",
               produced |-> {}]

ConcurrentFrame == UNCHANGED <<variant, files, baseDir, registry, loaded, now, last, mode, mIn>>

\* the caller reads the cache: a hit returns the stored value
ReadCache(c) ==
    /\ mode = "concurrent" /\ mOut.pc[c] = "start"
    /\ IF SharedKey(mIn.v) \in DOMAIN cache
       THEN mOut' = [mOut EXCEPT !.pc[c] = "done", !.got[c] = cache[SharedKey(mIn.v)].value]
       ELSE mOut' = [mOut EXCEPT !.pc[c] = "miss"]
    /\ cache' = cache
    /\ ConcurrentFrame

\* after a miss: with a locking library the caller waits for the lock of the
\* key and reads the cache once more before it runs the body
EnterMiss(c) ==
    /\ mode = "concurrent" /\ mOut.pc[c] = "miss"
    /\ IF ~mIn.locking THEN mOut' = [mOut EXCEPT !.pc[c] = "run"]
       ELSE /\ mOut.lock = ""
            /\ IF SharedKey(mIn.v) \in DOMAIN cache
               THEN mOut' = [mOut EXCEPT !.pc[c] = "done",
                                         !.got[c] = cache[SharedKey(mIn.v)].value]
               ELSE mOut' = [mOut EXCEPT !.pc[c] = "run", !.lock = c]
    /\ cache' = cache
    /\ ConcurrentFrame

\* the body runs: resolution and one call of session.sql.  The body is a
\* function of the request and of what session.sql does, tabulated in
\* mIn.body.
ExecuteBody(c, outcome) ==
    /\ mode = "concurrent" /\ mOut.pc[c] = "run"
    /\ LET comp == mIn.body[outcome]
       IN  mOut' = [mOut EXCEPT !.pc[c] = "write",
                                !.computed[c] = comp.value,
                                !.invoked[c] = @ + (IF comp.invoked THEN 1 ELSE 0),
                                !.produced = @ \cup {comp.value}]
    /\ cache' = cache
    /\ ConcurrentFrame

\* the result is written to the cache and returned
WriteAndReturn(c) ==
    /\ mode = "concurrent" /\ mOut.pc[c] = "write"
    /\ cache' = WriteResult(cache, SharedKey(mIn.v), mOut.computed[c], now)
    /\ mOut' = [mOut EXCEPT !.pc[c] = "done", !.got[c] = mOut.computed[c],
                            !.lock = IF mOut.lock = c THEN "" ELSE @]
    /\ ConcurrentFrame

NextConcurrent ==
    \/ \E c \in Callers : ReadCache(c)
    \/ \E c \in Callers : EnterMiss(c)
    \/ \E c \in Callers, o \in ExecOutcomes : ExecuteBody(c, o)
    \/ \E c \in Callers : WriteAndReturn(c)

\* every thread is scheduled and session.sql returns
SpecConcurrent == InitConcurrent /\ [][NextConcurrent]_vars /\ WF_vars(NextConcurrent)

AllDone == mode = "concurrent" /\ \A c \in Callers : mOut.pc[c] = "done"

ConcurrentSafety ==
    mode = "concurrent" =>
        /\ \A c \in Callers : mOut.invoked[c] <= 1
        /\ \A c \in Callers : mOut.pc[c] = "done" => mOut.got[c] \in mOut.produced
        /\ AllDone => /\ \E c \in Callers : mOut.invoked[c] = 1
                      /\ DOMAIN cache = {SharedKey(mIn.v)}

NotLoading == [pc |-> "idle", todo |-> <<>>, previous |-> EmptyRegistry,
               wasLoaded |-> FALSE, next |-> EmptyRegistry]

InitLoading ==
    /\ variant \in {"FD", "FS"}
    /\ files \in FileSystems
    /\ baseDir = "queries"
    /\ registry = EmptyRegistry
    /\ loaded = FALSE
    /\ cache = EmptyCache
    /\ now = 0
    /\ last = [op |-> "init"]
    /\ mode = "loading"
    /\ mIn = <<>>
    /\ mOut = NotLoading

\* load_all_queries up to the loop over the files: FD rebinds the catalog to
\* an empty dict, FS returns when the catalog is loaded and else keeps it
BeginLoad(order) ==
    /\ mode = "loading" /\ mOut.pc = "idle"
    /\ variant = "FS" => ~loaded
    /\ registry' = IF variant = "FD" THEN EmptyRegistry ELSE registry
    /\ mOut' = [pc |-> "loading", todo |-> order, previous |-> registry,
                wasLoaded |-> loaded,
                next |-> IF variant = "FD"
                         THEN load_all_queries_FD(registry, baseDir, order).reg
                         ELSE load_all_queries_FS(registry, loaded, baseDir, order).reg]
    /\ last' = [op |-> "begin_load"]
    /\ UNCHANGED <<variant, files, baseDir, loaded, cache, now, mode, mIn>>

\* one turn of the loop: the dictionaries of one file are stored
LoadFile ==
    /\ mode = "loading" /\ mOut.pc = "loading" /\ mOut.todo # <<>>
    /\ LET st == [reg |-> registry, log |-> <<>>]
           f == Head(mOut.todo)
       IN  registry' = IF variant = "FD" THEN LoadVars_FD(st, f.stem, f.vars).reg
                       ELSE load_queries_from_file_FS(st, f.stem, f.vars).reg
    /\ mOut' = [mOut EXCEPT !.todo = Tail(@)]
    /\ last' = [op |-> "load_file"]
    /\ UNCHANGED <<variant, files, baseDir, loaded, cache, now, mode, mIn>>

\* after the loop: FS sets _queries_loaded
EndLoad ==
    /\ mode = "loading" /\ mOut.pc = "loading" /\ mOut.todo = <<>>
    /\ loaded' = IF variant = "FS" THEN TRUE ELSE loaded
    /\ mOut' = [mOut EXCEPT !.pc = "idle"]
    /\ last' = [op |-> "end_load"]
    /\ UNCHANGED <<variant, files, baseDir, registry, cache, now, mode, mIn>>

NextLoading ==
    \/ \E order \in Orders(files) : BeginLoad(order)
    \/ LoadFile
    \/ EndLoad
    \/ \E ns \in LookupNamespaces, k \in LookupKeys : GetQueryText_FD(ns, k)
    \/ \E a \in LookupAddresses, order \in Orders(files) : GetQueryText_FS(a, order)

SpecLoading == InitLoading /\ [][NextLoading]_vars

\* the last step was a lookup, made between the start and the end of a load
LookupDuringLoad == mode = "loading" /\ last.op = "lookup" /\ mOut.pc = "loading"

\* what the lookup answers on the catalog as it was before the load, and on
\* the catalog the load builds
AnswerOnPrevious ==
    IF variant = "FD" THEN get_query_text_FD(mOut.previous, last.parts[1], last.parts[2])
    ELSE get_query_text_FS(mOut.previous, mOut.wasLoaded, last.addr)

AnswerOnNext ==
    IF variant = "FD" THEN get_query_text_FD(mOut.next, last.parts[1], last.parts[2])
    ELSE get_query_text_FS(mOut.next, TRUE, last.addr)

\* C26: No partial catalog observable: a get_query_text that runs while a
\* load or reload is in progress answers as on the complete previous catalog
\* or as on the complete new one, never as on an emptied or half-filled one.
C26_NoPartialCatalog ==
    LookupDuringLoad => last.lookup \in {AnswerOnPrevious, AnswerOnNext}

\* FD, during a reload of unchanged files: a template that the catalog held
\* before the reload and holds after it is reported missing
C26_Counterexample ==
    ~(/\ LookupDuringLoad /\ variant = "FD"
      /\ AnswerOnPrevious.tag = "ok" /\ AnswerOnNext.tag = "ok"
      /\ last.lookup.tag = "ValueError")

(***************************************************************************)
(* Top-N: where the Others row stands                                      *)
(***************************************************************************)
Overflow == TopNCall /\ Len(mIn.df) > mIn.n

\* C27: Position of the overflow row: when the input has more than n rows,
\* the output lists the n kept rows in descending order of value and then
\* the Others row as its last row, whatever the Others sum is.
C27_OthersLast ==
    Overflow =>
        /\ Len(mOut.rows) = mIn.n + 1
        /\ mOut.rows[Len(mOut.rows)].name = OtherLabel
        /\ \A i \in 1..mIn.n : mOut.rows[i].name # OtherLabel
        /\ \A i \in 1..(mIn.n - 1) : mOut.rows[i].value >= mOut.rows[i + 1].value

\* FD: an Others sum larger than the largest kept value is the first row
C27_Counterexample ==
    ~(/\ Overflow /\ mode = "top_n_FD" /\ mIn.n >= 1
      /\ mOut.rows[1].name = OtherLabel
      /\ mOut.rows[1].value > mOut.rows[2].value)

(***************************************************************************)
(* The frame of the caller after a call                                    *)
(***************************************************************************)
\* C30: Derived-metric operations do not modify their input: after
\* identify_high_impact_users the frame the caller passed has the rows and
\* the columns it had before the call.
C30_InputUnmodified ==
    mode \in {"priority_FD", "priority_SS"} =>
        /\ mOut.df_after = mIn.df
        /\ mOut.columns_after = InputColumns

\* SS: the caller's frame has got the priority columns
C30_Counterexample ==
    ~(/\ mode = "priority_SS" /\ mIn.df # <<>>
      /\ PriorityColumns_SS \subseteq mOut.columns_after)

(***************************************************************************)
(* Markers and bound values                                                *)
(***************************************************************************)
MarkerCount(sql) == Cardinality({i \in DOMAIN sql : sql[i] = Marker})

\* the markers the resolution put into the text
MarkersInserted == MarkerCount(mOut.sql) - MarkerCount(mIn.query_text)

\* C29: Markers match bound values: in the query handed to the executor the
\* number of ? markers the resolution inserted equals the length of the
\* binds list, also when the optional filter placeholder occurs zero times
\* or more than once in the template.
C29_MarkersMatchBinds ==
    (mode = "execute_FS" /\ mOut.invoked) => MarkersInserted = Len(mOut.binds)

\* the filter placeholder occurs twice and a user is given: two markers, one
\* bound value
C29_Counterexample ==
    ~(/\ mode = "execute_FS" /\ mOut.invoked
      /\ mIn.query_text = T_credits_both_periods
      /\ MarkersInserted = 2 /\ Len(mOut.binds) = 1)

(***************************************************************************)
(* The lookup comes before the execution                                   *)
(***************************************************************************)
\* the address is namespace.query_name of a template the registry holds
Registered(reg, addr) ==
    \E ns \in DOMAIN reg : \E k \in DOMAIN reg[ns] :
        /\ addr = ns \o <<Dot>> \o k
        /\ reg[ns][k].isStr /\ reg[ns][k].text # <<>>

\* C28: Lookup precedes execution: a fetch hands a query to the executor only
\* when the lookup of its address has succeeded; a fetch whose lookup fails
\* never reaches the executor and leaves the cache as it was.
C28_LookupPrecedesExecution ==
    [][last'.op = "fetch" =>
          /\ last'.invoked => (Registered(registry', last'.addr) /\ last'.lookup.tag = "ok")
          /\ ~Registered(registry', last'.addr) =>
                (~last'.invoked /\ ~last'.reached /\ cache' = cache)]_vars

\* a fetch of an address the loaded registry does not hold, made when the
\* cache already has an entry of an earlier fetch
C28_Witness ==
    /\ last.op = "fetch" /\ registry # EmptyRegistry
    /\ ~Registered(registry, last.addr)
    /\ ~last.invoked /\ cache # EmptyCache
====
